---- MODULE Spec2Model ----
(***************************************************************************)
(* Tetris for Terminals (emard/tetris4terminals), src/tetris.c.            *)
(*                                                                         *)
(* The game is modelled as the main loop of main():                        *)
(*     for(;;) { check_handle_command(); isr(); }                          *)
(* pc says which of the two calls comes next.  The C globals keep their    *)
(* names.  The handlers are state transformers on a record g holding the   *)
(* globals; every action applies one whole branch of a handler.            *)
(***************************************************************************)
EXTENDS Integers, Naturals, Sequences, FiniteSets, TLC

VARIABLES
  board,            \* unsigned char board[30], one bit per cell
  current_index,    \* kind of the current block, 1..7
  current_block,    \* <<current_block0, .., current_block3>>, one nibble each
  current_rotation, \* 0..3
  current_row,      \* signed char
  current_col,      \* signed char
  lines, level,
  score,            \* unsigned int score, 32 bits wide, held as the signed
                    \* integer of the same 32 bits: the score itself below
                    \* 2^31, the score - 2^32 from 2^31 on
  step_ms,
  MAX_level,        \* unsigned char MAX_level: 9, or 10 once main() has found -x
  vtime,            \* legacy variant: current_termios.c_cc[VTIME], the read
                    \* timeout of isr() in tenths of a second
  removed_rows,     \* legacy variant: the rows remove_row has removed since
                    \* the last init_game (a count the program does not keep)
  state,            \* flag byte: STATE_IDLE | TIMEOUT | GAME_OVER
  command,          \* last byte read by isr(), 0 = none
  pc,               \* "check" | "isr" | "exited" | "undefined" in the main
                    \* loop; "call" | "return" where a function is called on
                    \* its own
  expired,          \* isr(): tdiff > MS_TIMEOUT held at the last poll
  draws,            \* draw operations emitted by the last check_handle_command
  screen,           \* what the terminal shows: screen[line + 1][cell + 1] is the
                    \* character in the cell, DRAW_multi columns wide, that
                    \* starts at column cell * DRAW_multi of the line
  oob,              \* the last check_handle_command indexed board[] outside 0..29
  served,           \* <<event, byte, moved>>: the event the call of
                    \* check_handle_command that just returned has served
                    \* ("tick", "command" or "gameover"), the command byte it
                    \* found, and whether the block's kind, rotation, row or
                    \* column changed; <<"none", 0, FALSE>> once isr() has run
  nmoves,           \* Left/Right/Rotate keys read since the last init_game
                    \* (SpecLevels: Left, Rotate and Drop keys)
  nticks,           \* ticks delivered to a running game since the last init_game
  call,             \* a function called on its own: its name and arguments
  ret               \* a function called on its own: what it returned, or
                    \* what it found where it works on the globals

vars == <<board, current_index, current_block, current_rotation, current_row,
          current_col, lines, level, score, step_ms, MAX_level, vtime,
          removed_rows, state, command, pc, expired, draws, screen, oob, served,
          nmoves, nticks, call, ret>>

----------------------------------------------------------------------------
(* Program constants                                                       *)

ROWS == 24
COLS == 10
ROWSD == 23
ROW0 == ROWS - ROWSD
ROWNEW == 0
BOARD_BYTES == (ROWS \div 8) * 10

PAINT_FIXED == 2
PAINT_ACTIVE == 1
ERASE == 0

STATE_IDLE == 1
TIMEOUT == 2
GAME_OVER == 8

CMD_NONE == 0
CMD_LEFT == 106
CMD_RIGHT == 108
CMD_ROTATE_CCW == 107
CMD_ROTATE_CW == 105
CMD_DROP == 32
CMD_REDRAW == 114
CMD_START == 115
CMD_QUIT == 113
CMD_CTRLC == 3
KEY_OTHER == 120

XOFFSET == 3
XLIMIT == XOFFSET + COLS

DRAW_multi == 2
LINES == 24

CHAR_SPACE == 32
CHAR_WALL == 124
CHAR_FLOOR == 124
CHAR_ACTIVE == 72
CHAR_FIXED == 88

SCORE_PER_BLOCK == 1
INITIAL_STEP_MS == 1000
VT52_mode == 0
VT100_scroll == 1

----------------------------------------------------------------------------
(* Bounds of the model                                                     *)

\* the kinds create_random_block can draw: rand() & 7, redrawn while zero
AllKinds == 1 .. 7
\* Spec: the kinds the random source delivers (the 1x4 bar, with which the
\* pile reaches the top after the fewest blocks)
RandKinds == {3}
\* Spec: no block is locked once score has this value (a game has no last
\* block)
MaxScore == 8
\* Spec: Left/Right/Rotate keys read per game
MaxMoves == 1
\* Spec: ticks delivered to a running game, per game
MaxTicks == 1
\* SpecMoves: ticks delivered
MaxFall == 3
\* SpecCatalog: create_rotated_block is called with rotation bytes 0 .. MaxRot
MaxRot == 7
\* SpecLevels: rows cleared before the game is taken up; SpecClear: rows
\* removed before the call
MaxClears == 10
\* SpecLevels: Left, Rotate and Drop keys read per game
MaxKeys == 2
\* SpecLegacy: a game is taken up after 0 .. MaxRounds rounds of five squares
MaxRounds == 14
\* SpecLegacy: the rounds of the long game that is taken up as well
LongGame == 50
\* SpecTurns: rotate_block calls made in a row
MaxTurns == 4

----------------------------------------------------------------------------
(* Bit helpers for unsigned char arithmetic                                *)

\* mask = (1 << nbits), converted to unsigned char: 0 for nbits of 8 and
\* more (the shift of an int by 31 and more has no value)
power_of_two(nbits) == (2 ^ nbits) % 256

\* (x & power_of_two(n)) != 0
TestBit(x, n) ==
  LET mask == power_of_two(n)
  IN mask # 0 /\ (x \div mask) % 2 = 1

\* x | m and x & ~m for a single-bit mask m = power_of_two(n)
OrBit(x, n) == IF TestBit(x, n) THEN x ELSE x + power_of_two(n)
ClearBit(x, n) == IF TestBit(x, n) THEN x - power_of_two(n) ELSE x

\* conversion of an int to unsigned char
U8(x) == x % 256

\* the largest of the integers, which are the signed ones of 32 bits
MaxInt == 2147483647

\* the unsigned int hi * 2^16 + lo (hi and lo in 0 .. 65535) as the signed
\* integer of the same 32 bits
AsU32(hi, lo) ==
  IF hi >= 32768 THEN (hi - 65536) * 65536 + lo ELSE hi * 65536 + lo

\* a + n for unsigned int a and n in 0 .. MaxInt, both as signed integers of
\* the same bits: the sum modulo 2^32, which wraps from AsU32(65535, 65535),
\* the integer -1, to 0
AddU32(a, n) ==
  IF a > MaxInt - n THEN (a - MaxInt - 1) + (n - MaxInt - 1) ELSE a + n

\* a < b for the unsigned ints a and b
BelowU32(a, b) == IF (a < 0) = (b < 0) THEN a < b ELSE a >= 0

\* F applied to the value of v (v is evaluated once, as a C statement
\* evaluates its operand before the next statement runs)
Then(v, F(_)) == CHOOSE r \in { F(x) : x \in {v} } : TRUE

----------------------------------------------------------------------------
(* PieceCatalog: rotated_block_pattern[] and create_rotated_block           *)

rotated_block_pattern ==
  << 6, 96,   6, 96,   6, 96,   6, 96,        \* index 0: square
     6, 96,   6, 96,   6, 96,   6, 96,        \* index 1: square
     14, 64,  76, 64,  78, 0,   70, 64,       \* index 2: T
     68, 68,  15, 0,   68, 68,  15, 0,        \* index 3: 1x4
     12, 96,  2, 100,  12, 96,  2, 100,       \* index 4: red 2+2
     6, 192,  4, 98,   6, 192,  4, 98,        \* index 5: green 2+2
     14, 32,  2, 38,   0, 142,  12, 136,      \* index 6: blue L
     14, 128, 6, 34,   0, 46,   8, 140 >>     \* index 7: orange L

\* rotated_block_pattern[i] with the lower nibble, the second of the two
\* rows the byte holds, left empty
pattern_at_upper_row(i) == (rotated_block_pattern[i + 1] \div 16) * 16

\* the C array is indexed from 0
pattern_at(i) == rotated_block_pattern[i + 1]

\* create_rotated_block with the rotation masked by 7 instead of 3
create_rotated_block_mask7(index, rotation) ==
  LET i == U8(index * 8 + (rotation % 8) * 2)
      t0 == pattern_at(i)
      t1 == pattern_at(i + 1)
  IN << t0 \div 16, t0 % 16, t1 \div 16, t1 % 16 >>

create_rotated_block(index, rotation) ==
  LET i == U8(index * 8 + (rotation % 4) * 2)
      t0 == pattern_at(i)
      t1 == pattern_at(i + 1)
  IN << t0 \div 16, t0 % 16, t1 \div 16, t1 % 16 >>

getBlockNibble(blk, i) == blk[i + 1]

getBlockPixel(blk, row, col) == TestBit(getBlockNibble(blk, row), col)

----------------------------------------------------------------------------
(* Board: setPixel / occupied on the packed bytes                           *)

\* the byte index with 8 bytes per band of rows instead of 10
board_index_band8(row, col) == U8((row \div 8) * 8 + col)

board_index(row, col) == U8((row \div 8) * 10 + col)

InBoard(row, col) == board_index(row, col) \in 0 .. (BOARD_BYTES - 1)

\* the arguments every caller is expected to pass
PixelArgsOk(row, col) == row \in 0 .. (ROWS - 1) /\ col \in 0 .. (COLS - 1)

\* a store outside board[] is undefined behaviour: it lands outside the
\* modelled memory, board is left as it is, and the handler that made the call
\* reports it in oob
setPixel(b, row, col, val) ==
  LET index == board_index(row, col)
      n == row % 8
  IN IF index >= BOARD_BYTES THEN b
     ELSE IF val = 0 THEN [b EXCEPT ![index] = ClearBit(b[index], n)]
     ELSE [b EXCEPT ![index] = OrBit(b[index], n)]

\* a read outside board[] is undefined behaviour: b[index] has no value
\* there, and no caller passes such a row and col (test_if_block_fits
\* returns before it for a row of ROWS and more and for a col outside 0 .. 9)
occupied(b, row, col) ==
  LET index == board_index(row, col)
  IN TestBit(b[index], row % 8)

EmptyBoard == [x \in 0 .. (BOARD_BYTES - 1) |-> 0]

\* the passes lo .. hi-1 of the two loops of clear_board, run in order: pass
\* k is row k \div COLS, column k % COLS
RECURSIVE clear_steps(_, _, _)
clear_steps(b, lo, hi) ==
  IF hi = lo + 1 THEN setPixel(b, lo \div COLS, lo % COLS, 0)
  ELSE Then(clear_steps(b, lo, (lo + hi) \div 2),
            LAMBDA nb : clear_steps(nb, (lo + hi) \div 2, hi))

clear_board(b) == clear_steps(b, 0, ROWS * COLS)

RECURSIVE row_scan(_, _, _)
row_scan(b, r, c) ==
  IF c = COLS THEN TRUE
  ELSE IF ~occupied(b, r, c) THEN FALSE
  ELSE row_scan(b, r, c + 1)

is_complete_row(b, r) == row_scan(b, r, 0)

\* the statements lo .. hi-1 of remove_row, run in order: each column c takes
\* row + 1 statements, statement k < row of a column being the pass
\* r = row - k of the inner loop, setPixel(r, c, occupied(r-1, c)), and
\* statement row being setPixel(0, c, 0)
RECURSIVE remove_row_steps(_, _, _, _)
remove_row_steps(b, row, lo, hi) ==
  IF hi = lo + 1
  THEN LET c == lo \div (row + 1)
           k == lo % (row + 1)
       IN IF k = row THEN setPixel(b, 0, c, 0)
          ELSE setPixel(b, row - k, c,
                        IF occupied(b, row - k - 1, c) THEN 1 ELSE 0)
  ELSE Then(remove_row_steps(b, row, lo, (lo + hi) \div 2),
            LAMBDA nb : remove_row_steps(nb, row, (lo + hi) \div 2, hi))

\* remove_row that leaves the topmost pixel of every column as it is
remove_row_top_kept(b, row) ==
  IF row = 0 THEN b ELSE remove_row_steps(b, row, 0, COLS * (row + 1) - 1)

remove_row(b, row) == remove_row_steps(b, row, 0, COLS * (row + 1))

----------------------------------------------------------------------------
(* The globals as a record, and the operations on the current block         *)

Cur ==
  [ board |-> board, current_index |-> current_index,
    current_block |-> current_block, current_rotation |-> current_rotation,
    current_row |-> current_row, current_col |-> current_col,
    lines |-> lines, level |-> level, score |-> score, step_ms |-> step_ms,
    MAX_level |-> MAX_level, vtime |-> vtime,
    removed_rows |-> removed_rows,
    state |-> state, command |-> command,
    draws |-> draws, screen |-> screen, oob |-> oob ]

gameover(g) == TestBit(g.state, 3)

timeout(g) == TestBit(g.state, 1)

\* create_random_block with x the value the rand() loop ends with
create_random_block(g, x) ==
  [g EXCEPT !.current_block = create_rotated_block(x, 0),
            !.current_index = x,
            !.current_rotation = 0]

\* rotate_block that builds the mask before it stores the new rotation
rotate_block_stale_mask(g, r) ==
  [g EXCEPT !.current_rotation = (g.current_rotation + r) % 4,
            !.current_block = create_rotated_block(g.current_index,
                                                   g.current_rotation)]

\* r is +1 or -1; (current_rotation + r) & 3
rotate_block(g, r) ==
  LET rot == (g.current_rotation + r) % 4
  IN [g EXCEPT !.current_rotation = rot,
               !.current_block = create_rotated_block(g.current_index, rot)]

\* pass (i, j) of the loops with the right edge tested by ccj > 10
fits_cell_right_edge(b, blk, row, col, i, j) ==
  IF getBlockPixel(blk, i, j)
  THEN IF col + j < 0 THEN FALSE
       ELSE IF col + j > 10 THEN FALSE
       ELSE IF row + i >= ROWS THEN FALSE
       ELSE ~occupied(b, U8(row + i), U8(col + j))
  ELSE TRUE

\* pass (i, j) of the loops of test_if_block_fits does not return 0; ccj is
\* col + j as a signed char, and col + j stays within -128 .. 127
fits_cell(b, blk, row, col, i, j) ==
  IF getBlockPixel(blk, i, j)
  THEN IF col + j < 0 THEN FALSE
       ELSE IF col + j >= 10 THEN FALSE
       ELSE IF row + i >= ROWS THEN FALSE
       ELSE ~occupied(b, U8(row + i), U8(col + j))
  ELSE TRUE

\* the passes lo .. hi-1 of the two loops of test_if_block_fits, pass k being
\* i = k \div 4, j = k % 4, run in order: 0 from the first pass that returns
\* 0 (no later pass is run), 1 when none does
RECURSIVE fits_scan(_, _, _, _, _, _)
fits_scan(b, blk, row, col, lo, hi) ==
  IF hi = lo + 1
  THEN IF fits_cell(b, blk, row, col, lo \div 4, lo % 4) THEN 1 ELSE 0
  ELSE IF fits_scan(b, blk, row, col, lo, (lo + hi) \div 2) = 0 THEN 0
  ELSE fits_scan(b, blk, row, col, (lo + hi) \div 2, hi)

test_if_block_fits(g0) ==
  Then(g0, LAMBDA g :
    fits_scan(g.board, g.current_block, g.current_row, g.current_col,
              0, 16) = 1)

\* fits_frame with the anchor column as the scratch variable of the loops:
\* a pass that finds a cell of the mask stores current_col + j in
\* current_col instead of ccj
RECURSIVE fits_frame_ccj_global(_, _, _)
fits_frame_ccj_global(f, lo, hi) ==
  IF hi = lo + 1
  THEN IF f.bit # 2 THEN f
       ELSE LET i == lo \div 4
                j == lo % 4
                f1 == [f EXCEPT !.i = i, !.j = j]
            IN IF getBlockPixel(f1.g.current_block, i, j)
               THEN [f1 EXCEPT
                       !.g.current_col = f1.g.current_col + j,
                       !.bit = IF fits_cell(f1.g.board, f1.g.current_block,
                                            f1.g.current_row,
                                            f1.g.current_col, i, j)
                               THEN 2 ELSE 0]
               ELSE f1
  ELSE Then(fits_frame_ccj_global(f, lo, (lo + hi) \div 2),
            LAMBDA f1 : fits_frame_ccj_global(f1, (lo + hi) \div 2, hi))

\* the passes lo .. hi-1 of the two loops of test_if_block_fits, statement
\* by statement, on the frame f of the call: f.g are the globals, f.i, f.j
\* and f.ccj the locals, f.bit is the bit that a return statement inside
\* the loops has returned, and 2 while none has run; pass k is pass
\* (k div 4, k mod 4)
RECURSIVE fits_frame(_, _, _)
fits_frame(f, lo, hi) ==
  IF hi = lo + 1
  THEN IF f.bit # 2 THEN f
       ELSE LET i == lo \div 4
                j == lo % 4
                f1 == [f EXCEPT !.i = i, !.j = j]
            IN IF getBlockPixel(f1.g.current_block, i, j)
               THEN [f1 EXCEPT
                       !.ccj = f1.g.current_col + j,
                       !.bit = IF fits_cell(f1.g.board, f1.g.current_block,
                                            f1.g.current_row,
                                            f1.g.current_col, i, j)
                               THEN 2 ELSE 0]
               ELSE f1
  ELSE Then(fits_frame(f, lo, (lo + hi) \div 2),
            LAMBDA f1 : fits_frame(f1, (lo + hi) \div 2, hi))

\* one call of test_if_block_fits on the globals g, as <<the globals it
\* leaves, the bit it returns>>; the locals hold nothing a pass reads
\* before it has stored it
test_if_block_fits_call(g) ==
  Then(fits_frame([g |-> g, i |-> 0, j |-> 0, ccj |-> 0, bit |-> 2], 0, 16),
       LAMBDA f : << f.g, IF f.bit = 2 THEN 1 ELSE 0 >>)

\* the setPixel calls of copy_block_to_gameboard, k = 4*i + j
RECURSIVE copy_scan(_, _, _, _, _)
copy_scan(b, blk, row, col, k) ==
  IF k = 16 THEN b
  ELSE LET i == k \div 4
           j == k % 4
           cri == U8(row + i)
           ccj == U8(col + j)
       IN IF getBlockPixel(blk, i, j)
          THEN Then(setPixel(b, cri, ccj, 1),
                    LAMBDA nb : copy_scan(nb, blk, row, col, k + 1))
          ELSE copy_scan(b, blk, row, col, k + 1)

\* some setPixel call of copy_block_to_gameboard has arguments out of range
copy_oob(blk, row, col) ==
  \E i \in 0 .. 3, j \in 0 .. 3 :
     getBlockPixel(blk, i, j) /\ ~PixelArgsOk(U8(row + i), U8(col + j))

\* copy_block_to_gameboard that leaves out the first row of the mask
copy_block_to_gameboard_from_row_1(g) ==
  [g EXCEPT !.board = copy_scan(g.board, g.current_block, g.current_row,
                                g.current_col, 4),
            !.oob = g.oob \/ copy_oob(g.current_block, g.current_row,
                                      g.current_col)]

copy_block_to_gameboard(g) ==
  [g EXCEPT !.board = copy_scan(g.board, g.current_block, g.current_row,
                                g.current_col, 0),
            !.oob = g.oob \/ copy_oob(g.current_block, g.current_row,
                                      g.current_col)]

----------------------------------------------------------------------------
(* RenderDiffer: the draw operations, recorded as <<operation, argument>>    *)

emit(g, op, arg) == [g EXCEPT !.draws = Append(g.draws, <<op, arg>>)]

\* a line of the terminal with nothing on it, cells 0 .. XLIMIT
BlankLine == <<>> \o [c \in 1 .. (XLIMIT + 1) |-> CHAR_SPACE]

\* the LINES lines of the terminal after ESC [ H, ESC [ J
BlankScreen == <<>> \o [r \in 1 .. LINES |-> BlankLine]

\* the number a terminal reads from the characters vt100_itoa(val) sends: the
\* digit val % 10, after the digit (val / 10) & 15 when val >= 10; no number
\* (0 - 1) when that one is a letter
vt100_itoa(val) ==
  IF val < 10 THEN val
  ELSE IF (val \div 10) % 16 > 9 THEN 0 - 1
  ELSE ((val \div 10) % 16) * 10 + (val % 10)

\* vt100_goto(row, col) followed by DRAW_multi times vt100_putc(ch), on the
\* screen s: the terminal counts lines and columns from 1
put_cell(s, row, col, ch) ==
  LET line == vt100_itoa(U8(row + 1))
      cell == (vt100_itoa(U8(col + 1)) - 1) \div DRAW_multi + 1
  IN IF line \in DOMAIN s /\ vt100_itoa(U8(col + 1)) >= 1
        /\ cell \in DOMAIN s[line]
     THEN [s EXCEPT ![line][cell] = ch] ELSE s

\* the passes k = 4*i + j of the loops of display_block that follow pass k - 1
RECURSIVE block_scan(_, _, _, _, _, _)
block_scan(s, blk, row, col, ch, k) ==
  IF k = 16 THEN s
  ELSE LET i == k \div 4
           j == k % 4
           rr == U8(row + i)
           cc == U8(XOFFSET + col + j)
       IN IF rr < ROW0 \/ rr >= ROWS THEN block_scan(s, blk, row, col, ch, k + 1)
          ELSE IF cc >= XLIMIT THEN block_scan(s, blk, row, col, ch, k + 1)
          ELSE IF getBlockPixel(blk, i, j)
          THEN Then(put_cell(s, rr - ROW0, U8(cc * DRAW_multi), ch),
                    LAMBDA ns : block_scan(ns, blk, row, col, ch, k + 1))
          ELSE block_scan(s, blk, row, col, ch, k + 1)

\* display_block that leaves out the first row of the mask when it erases,
\* for( i = (paintMode == ERASE); i < 4; i++ )
display_block_erase_from_row_1(g, paintMode) ==
  LET draw == IF paintMode = PAINT_ACTIVE THEN CHAR_ACTIVE
              ELSE IF paintMode = PAINT_FIXED THEN CHAR_FIXED ELSE CHAR_SPACE
  IN [emit(g, "display_block", paintMode) EXCEPT
        !.screen = block_scan(g.screen, g.current_block, g.current_row,
                              g.current_col, draw,
                              IF paintMode = ERASE THEN 4 ELSE 0)]

display_block(g, paintMode) ==
  LET draw == IF paintMode = PAINT_ACTIVE THEN CHAR_ACTIVE
              ELSE IF paintMode = PAINT_FIXED THEN CHAR_FIXED ELSE CHAR_SPACE
  IN [emit(g, "display_block", paintMode) EXCEPT
        !.screen = block_scan(g.screen, g.current_block, g.current_row,
                              g.current_col, draw, 0)]

\* what pass r of the first loop of display_board puts on a line, from the
\* cell 2 on: wall, the COLS cells of row r + ROW0, wall
board_line(b, r) ==
  <<CHAR_WALL>>
  \o [c \in 1 .. COLS |-> IF occupied(b, r + ROW0, c - 1)
                          THEN CHAR_FIXED ELSE CHAR_SPACE]
  \o <<CHAR_WALL>>

display_board(g, rows) ==
  [emit(g, "display_board", rows) EXCEPT
     !.screen =
        <<>> \o [n \in 1 .. LINES |->
                   IF n - 1 < rows
                   THEN SubSeq(g.screen[n], 1, 2) \o board_line(g.board, n - 1)
                   ELSE IF rows = ROWSD /\ n - 1 = rows
                   THEN SubSeq(g.screen[n], 1, 2)
                        \o [c \in 1 .. (COLS + 2) |-> CHAR_FLOOR]
                   ELSE g.screen[n]]]

display_score(g) == emit(g, "display_score", 0)

erase_score(g) == emit(g, "erase_score", 0)

\* ESC [ 1 ; b+1 r, ESC M at the top of the region, ESC [ 1 ; 24 r: the
\* lines 1 .. b+1 move down by one, line b+1 is lost and line 1 is blank; a
\* terminal ignores a region of less than two lines or beyond its last
\* line, and the region stays the screen
vt100_scroll_region_down(g, b) ==
  LET bottom == vt100_itoa(U8(U8(b) + 1))
      last == IF bottom >= 2 /\ bottom <= LINES THEN bottom ELSE LINES
  IN [emit(g, "scroll_region_down", U8(b)) EXCEPT
        !.screen = <<BlankLine>> \o SubSeq(g.screen, 1, last - 1)
                   \o SubSeq(g.screen, last + 1, LINES)]

vt100_beep(g) == emit(g, "beep", 0)

vt100_clear_screen(g) ==
  [emit(g, "clear_screen", 0) EXCEPT !.screen = BlankScreen]

----------------------------------------------------------------------------
(* LineClearEngine                                                          *)

\* the body with the level raised at every third row, if(++lines == 3)
remove_completed_every_third(g, r) ==
  Then(remove_row(g.board, r), LAMBDA nb :
    LET g1 == [g EXCEPT !.board = nb]
        g2 == IF VT52_mode = 0 /\ VT100_scroll = 1
              THEN vt100_scroll_region_down(g1, r - ROW0) ELSE g1
        nl == U8(g2.lines + 1)
    IN IF nl = 3
       THEN IF g2.level < g2.MAX_level
            THEN [g2 EXCEPT !.lines = 0, !.level = g2.level + 1,
                            !.step_ms = (g2.step_ms * 3) \div 4]
            ELSE [g2 EXCEPT !.lines = 0]
       ELSE [g2 EXCEPT !.lines = nl])

\* the body without the test of MAX_level
remove_completed_no_cap(g, r) ==
  Then(remove_row(g.board, r), LAMBDA nb :
    LET g1 == [g EXCEPT !.board = nb]
        g2 == IF VT52_mode = 0 /\ VT100_scroll = 1
              THEN vt100_scroll_region_down(g1, r - ROW0) ELSE g1
        nl == U8(g2.lines + 1)
    IN IF nl = 1
       THEN IF g2.level < g2.MAX_level \/ TRUE
            THEN [g2 EXCEPT !.lines = 0, !.level = g2.level + 1,
                            !.step_ms = (g2.step_ms * 3) \div 4]
            ELSE [g2 EXCEPT !.lines = 0]
       ELSE [g2 EXCEPT !.lines = nl])

\* the body with step_ms shrunk outside the test of MAX_level
remove_completed_shrinks_at_cap(g, r) ==
  Then(remove_row(g.board, r), LAMBDA nb :
    LET g1 == [g EXCEPT !.board = nb]
        g2 == IF VT52_mode = 0 /\ VT100_scroll = 1
              THEN vt100_scroll_region_down(g1, r - ROW0) ELSE g1
        nl == U8(g2.lines + 1)
    IN IF nl = 1
       THEN IF g2.level < g2.MAX_level
            THEN [g2 EXCEPT !.lines = 0, !.level = g2.level + 1,
                            !.step_ms = (g2.step_ms * 3) \div 4]
            ELSE [g2 EXCEPT !.lines = 0,
                            !.step_ms = (g2.step_ms * 3) \div 4]
       ELSE [g2 EXCEPT !.lines = nl])

\* the body with step_ms shifted before it is multiplied, (step_ms>>2)*3
remove_completed_shift_first(g, r) ==
  Then(remove_row(g.board, r), LAMBDA nb :
    LET g1 == [g EXCEPT !.board = nb]
        g2 == IF VT52_mode = 0 /\ VT100_scroll = 1
              THEN vt100_scroll_region_down(g1, r - ROW0) ELSE g1
        nl == U8(g2.lines + 1)
    IN IF nl = 1
       THEN IF g2.level < g2.MAX_level
            THEN [g2 EXCEPT !.lines = 0, !.level = g2.level + 1,
                            !.step_ms = (g2.step_ms \div 4) * 3]
            ELSE [g2 EXCEPT !.lines = 0]
       ELSE [g2 EXCEPT !.lines = nl])

\* the body with the threshold of two rows, if(++lines == 2)
remove_completed_every_second(g, r) ==
  Then(remove_row(g.board, r), LAMBDA nb :
    LET g1 == [g EXCEPT !.board = nb]
        g2 == IF VT52_mode = 0 /\ VT100_scroll = 1
              THEN vt100_scroll_region_down(g1, r - ROW0) ELSE g1
        nl == U8(g2.lines + 1)
    IN IF nl = 2
       THEN IF g2.level < g2.MAX_level
            THEN [g2 EXCEPT !.lines = 0, !.level = g2.level + 1,
                            !.step_ms = (g2.step_ms * 3) \div 4]
            ELSE [g2 EXCEPT !.lines = 0]
       ELSE [g2 EXCEPT !.lines = nl])

\* body of the second loop of check_remove_completed_rows for row r
remove_completed(g, r) ==
  Then(remove_row(g.board, r), LAMBDA nb :
    LET g1 == [g EXCEPT !.board = nb]
        g2 == IF VT52_mode = 0 /\ VT100_scroll = 1
              THEN vt100_scroll_region_down(g1, r - ROW0) ELSE g1
        nl == U8(g2.lines + 1)
    IN IF nl = 1
       THEN IF g2.level < g2.MAX_level
            THEN [g2 EXCEPT !.lines = 0, !.level = g2.level + 1,
                            !.step_ms = (g2.step_ms * 3) \div 4]
            ELSE [g2 EXCEPT !.lines = 0]
       ELSE [g2 EXCEPT !.lines = nl])

\* the second loop run from the bottom row to the top row,
\* for( r=ROWS; r-- > 0; )
RECURSIVE remove_loop_bottom_up(_, _, _)
remove_loop_bottom_up(p, lo, hi) ==
  IF hi = lo + 1
  THEN IF is_complete_row(p[1].board, lo)
       THEN <<remove_completed(p[1], lo), U8(p[2] + 1)>>
       ELSE p
  ELSE Then(remove_loop_bottom_up(p, (lo + hi) \div 2, hi),
            LAMBDA q : remove_loop_bottom_up(q, lo, (lo + hi) \div 2))

\* the passes r = lo .. hi-1 of the second loop, run in order on
\* p = <<g, removed>>
RECURSIVE remove_loop(_, _, _)
remove_loop(p, lo, hi) ==
  IF hi = lo + 1
  THEN IF is_complete_row(p[1].board, lo)
       THEN <<remove_completed(p[1], lo), U8(p[2] + 1)>>
       ELSE p
  ELSE Then(remove_loop(p, lo, (lo + hi) \div 2),
            LAMBDA q : remove_loop(q, (lo + hi) \div 2, hi))

\* check_remove_completed_rows repainting the board whether or not a row was
\* removed
check_remove_completed_rows_always_repaints(g) ==
  LET first == \E r \in 0 .. (ROWS - 1) : is_complete_row(g.board, r)
      g0 == IF VT52_mode = 0 /\ VT100_scroll = 1 /\ first
            THEN erase_score(g) ELSE g
  IN Then(remove_loop(<<g0, 0>>, 0, ROWS), LAMBDA res :
       LET g1 == res[1]
           removed == res[2]
       IN IF removed > 0
          THEN display_score(display_board(vt100_beep(g1), removed))
          ELSE display_board(g1, ROWSD))

check_remove_completed_rows(g) ==
  LET first == \E r \in 0 .. (ROWS - 1) : is_complete_row(g.board, r)
      g0 == IF VT52_mode = 0 /\ VT100_scroll = 1 /\ first
            THEN erase_score(g) ELSE g
  IN Then(remove_loop(<<g0, 0>>, 0, ROWS), LAMBDA res :
       LET g1 == res[1]
           removed == res[2]
       IN IF removed > 0
          THEN LET g2 == vt100_beep(g1)
                   g3 == IF VT52_mode = 0
                         THEN IF VT100_scroll = 1
                              THEN display_board(g2, removed)
                              ELSE display_board(g2, ROWSD)
                         ELSE g2
               IN display_score(g3)
          ELSE g1)

----------------------------------------------------------------------------
(* ActivePiece: the command functions                                       *)

cmd_move_left(g) ==
  Then([g EXCEPT !.current_col = g.current_col - 1], LAMBDA g1 :
    IF test_if_block_fits(g1) THEN g1
    ELSE [g1 EXCEPT !.current_col = g1.current_col + 1])

cmd_move_right(g) ==
  Then([g EXCEPT !.current_col = g.current_col + 1], LAMBDA g1 :
    IF test_if_block_fits(g1) THEN g1
    ELSE [g1 EXCEPT !.current_col = g1.current_col - 1])

\* cmd_rotate without the rotation back
cmd_rotate_no_undo(g, r) ==
  rotate_block(g, r)

cmd_rotate(g, r) ==
  Then(rotate_block(g, r), LAMBDA g1 :
    IF test_if_block_fits(g1) THEN g1
    ELSE rotate_block(g1, 0 - r))

\* lock_block with SCORE_PER_ROW added for every row that is removed
lock_block_row_bonus(g1, x) ==
  LET g2 == IF g1.current_row <= ROWNEW + 2
            THEN [g1 EXCEPT !.state = OrBit(g1.state, 3)]
            ELSE g1
      g3 == [g2 EXCEPT !.current_row = g1.current_row - 1]
      g4 == display_block(g3, PAINT_FIXED)
  IN Then(copy_block_to_gameboard(g4), LAMBDA g5 :
       Then(check_remove_completed_rows(g5), LAMBDA g6 :
         LET g7 == [g6 EXCEPT !.current_row = ROWNEW, !.current_col = 4]
             g8 == create_random_block(g7, x)
             n == Cardinality({ r \in 0 .. (ROWS - 1) :
                                   is_complete_row(g5.board, r) })
             g9 == [g8 EXCEPT !.score =
                        AddU32(g6.score, SCORE_PER_BLOCK + 20 * n)]
         IN display_block(g9, PAINT_ACTIVE)))

\* lock_block that ends the game only when the block is stuck at the row it
\* was spawned at and cannot even enter row ROWNEW
lock_block_stuck_above_only(g1, x) ==
  LET g2 == IF g1.current_row <= ROWNEW
            THEN [g1 EXCEPT !.state = OrBit(g1.state, 3)]
            ELSE g1
      g3 == [g2 EXCEPT !.current_row = g1.current_row - 1]
      g4 == display_block(g3, PAINT_FIXED)
  IN Then(copy_block_to_gameboard(g4), LAMBDA g5 :
       Then(check_remove_completed_rows(g5), LAMBDA g6 :
         LET g7 == [g6 EXCEPT !.current_row = ROWNEW, !.current_col = 4]
             g8 == create_random_block(g7, x)
             g9 == [g8 EXCEPT !.score = AddU32(g6.score, SCORE_PER_BLOCK)]
         IN display_block(g9, PAINT_ACTIVE)))

\* cmd_move_down after the fit test has failed: g1 is the state with
\* current_row already incremented, x the kind create_random_block draws
lock_block(g1, x) ==
  LET g2 == IF g1.current_row <= ROWNEW + 2
            THEN [g1 EXCEPT !.state = OrBit(g1.state, 3)]
            ELSE g1
      g3 == [g2 EXCEPT !.current_row = g1.current_row - 1]
      g4 == display_block(g3, PAINT_FIXED)
  IN Then(copy_block_to_gameboard(g4), LAMBDA g5 :
       Then(check_remove_completed_rows(g5), LAMBDA g6 :
         LET g7 == [g6 EXCEPT !.current_row = ROWNEW, !.current_col = 4]
             g8 == create_random_block(g7, x)
             g9 == [g8 EXCEPT !.score = AddU32(g6.score, SCORE_PER_BLOCK)]
         IN display_block(g9, PAINT_ACTIVE)))

cmd_move_down(g, x) ==
  Then([g EXCEPT !.current_row = g.current_row + 1], LAMBDA g1 :
    IF test_if_block_fits(g1) THEN g1 ELSE lock_block(g1, x))

\* n passes of for( ; test_if_block_fits(); ) current_row++, run in order; a
\* pass after the test has failed finds the same globals, fails again and
\* changes nothing, which is the loop having ended
RECURSIVE drop_passes(_, _)
drop_passes(g, n) ==
  IF n = 1
  THEN IF test_if_block_fits(g)
       THEN [g EXCEPT !.current_row = g.current_row + 1] ELSE g
  ELSE Then(drop_passes(g, n \div 2),
            LAMBDA ng : drop_passes(ng, n - n \div 2))

\* the loop: from a row >= 0 the test fails after ROWS passes at the latest
drop_loop(g0) == Then(g0, LAMBDA g : drop_passes(g, ROWS + 1))

\* cmd_drop without the step back to the last row that fitted
cmd_drop_no_step_back(g, x) ==
  Then(drop_loop(display_block(g, ERASE)), LAMBDA g2 :
    cmd_move_down(display_block(g2, PAINT_FIXED), x))

\* cmd_drop with a loop that gives up after two passes
cmd_drop_two_passes(g, x) ==
  Then(drop_passes(display_block(g, ERASE), 2), LAMBDA g2 :
    LET g3 == [g2 EXCEPT !.current_row = g2.current_row - 1]
        g4 == display_block(g3, PAINT_FIXED)
    IN cmd_move_down(g4, x))

cmd_drop(g, x) ==
  Then(drop_loop(display_block(g, ERASE)), LAMBDA g2 :
    LET g3 == [g2 EXCEPT !.current_row = g2.current_row - 1]
        g4 == display_block(g3, PAINT_FIXED)
    IN cmd_move_down(g4, x))

\* init_game without level = 1
init_game_keeps_level(g, x) ==
  Then(clear_board(g.board), LAMBDA nb :
    LET g1 == vt100_clear_screen(g)
        g2 == [g1 EXCEPT !.board = nb]
        g3 == display_board(g2, ROWSD)
        g4 == [g3 EXCEPT !.current_row = ROWNEW, !.current_col = 4]
        g5 == create_random_block(g4, x)
        g6 == [g5 EXCEPT !.score = SCORE_PER_BLOCK, !.lines = 0,
                         !.step_ms = INITIAL_STEP_MS,
                         !.state = STATE_IDLE, !.command = CMD_NONE]
    IN display_block(g6, PAINT_ACTIVE))

init_game(g, x) ==
  Then(clear_board(g.board), LAMBDA nb :
    LET g1 == vt100_clear_screen(g)
        g2 == [g1 EXCEPT !.board = nb]
        g3 == display_board(g2, ROWSD)
        g4 == [g3 EXCEPT !.current_row = ROWNEW, !.current_col = 4]
        g5 == create_random_block(g4, x)
        g6 == [g5 EXCEPT !.score = SCORE_PER_BLOCK, !.lines = 0, !.level = 1,
                         !.step_ms = INITIAL_STEP_MS,
                         !.state = STATE_IDLE, !.command = CMD_NONE]
    IN display_block(g6, PAINT_ACTIVE))

\* the timeout branch without cmd_move_down: the block is erased and painted
\* again where it is
tick_branch_stays(g, x) ==
  Then(display_block(display_block(g, ERASE), PAINT_ACTIVE),
       LAMBDA g3 : [g3 EXCEPT !.state = ClearBit(OrBit(g3.state, 1), 1)])

\* the timeout branch without state ^= TIMEOUT
tick_branch_flag_left_set(g, x) ==
  Then(display_block(cmd_move_down(display_block(g, ERASE), x), PAINT_ACTIVE),
       LAMBDA g3 : [g3 EXCEPT !.state = OrBit(g3.state, 1)])

\* the timeout branch of check_handle_command
tick_branch(g, x) ==
  Then(display_block(cmd_move_down(display_block(g, ERASE), x), PAINT_ACTIVE),
       LAMBDA g3 : [g3 EXCEPT !.state = ClearBit(OrBit(g3.state, 1), 1)])

\* the switch with a CMD_REDRAW case that clears the board before it paints
command_switch_redraw_clears_board(g, tmp, x) ==
  CASE tmp = CMD_NONE -> g
    [] tmp = CMD_LEFT ->
         display_block(cmd_move_left(display_block(g, ERASE)), PAINT_ACTIVE)
    [] tmp = CMD_ROTATE_CCW ->
         display_block(cmd_rotate(display_block(g, ERASE), 1), PAINT_ACTIVE)
    [] tmp = CMD_ROTATE_CW ->
         display_block(cmd_rotate(display_block(g, ERASE), 0 - 1), PAINT_ACTIVE)
    [] tmp = CMD_RIGHT ->
         display_block(cmd_move_right(display_block(g, ERASE)), PAINT_ACTIVE)
    [] tmp = CMD_DROP -> cmd_drop(g, x)
    [] tmp = CMD_REDRAW ->
         display_block(display_score(display_board(
           vt100_clear_screen([g EXCEPT !.board = clear_board(g.board)]),
           ROWSD)), PAINT_ACTIVE)
    [] tmp = CMD_START -> init_game(g, x)
    [] OTHER -> g

\* the switch with a default case that paints the block
command_switch_default_repaints(g, tmp, x) ==
  CASE tmp = CMD_NONE -> g
    [] tmp = CMD_LEFT ->
         display_block(cmd_move_left(display_block(g, ERASE)), PAINT_ACTIVE)
    [] tmp = CMD_ROTATE_CCW ->
         display_block(cmd_rotate(display_block(g, ERASE), 1), PAINT_ACTIVE)
    [] tmp = CMD_ROTATE_CW ->
         display_block(cmd_rotate(display_block(g, ERASE), 0 - 1), PAINT_ACTIVE)
    [] tmp = CMD_RIGHT ->
         display_block(cmd_move_right(display_block(g, ERASE)), PAINT_ACTIVE)
    [] tmp = CMD_DROP -> cmd_drop(g, x)
    [] tmp = CMD_REDRAW ->
         display_block(display_score(display_board(vt100_clear_screen(g),
                                                   ROWSD)), PAINT_ACTIVE)
    [] tmp = CMD_START -> init_game(g, x)
    [] OTHER -> display_block(g, PAINT_ACTIVE)

\* the switch of check_handle_command, after tmp = command; command = CMD_NONE
command_switch(g, tmp, x) ==
  CASE tmp = CMD_NONE -> g
    [] tmp = CMD_LEFT ->
         display_block(cmd_move_left(display_block(g, ERASE)), PAINT_ACTIVE)
    [] tmp = CMD_ROTATE_CCW ->
         display_block(cmd_rotate(display_block(g, ERASE), 1), PAINT_ACTIVE)
    [] tmp = CMD_ROTATE_CW ->
         display_block(cmd_rotate(display_block(g, ERASE), 0 - 1), PAINT_ACTIVE)
    [] tmp = CMD_RIGHT ->
         display_block(cmd_move_right(display_block(g, ERASE)), PAINT_ACTIVE)
    [] tmp = CMD_DROP -> cmd_drop(g, x)
    [] tmp = CMD_REDRAW ->
         display_block(display_score(display_board(vt100_clear_screen(g),
                                                   ROWSD)), PAINT_ACTIVE)
    [] tmp = CMD_START -> init_game(g, x)
    [] OTHER -> g

\* the gameover branch with its return left out: what is not Start goes on
\* to the timeout test and the switch
gameover_branch_no_return(g, x) ==
  LET g1 == [g EXCEPT !.step_ms = 1000]
  IN IF g1.command = CMD_START THEN init_game(g1, x)
     ELSE IF timeout(g1) THEN tick_branch(g1, x)
     ELSE command_switch([g1 EXCEPT !.command = CMD_NONE], g1.command, x)

\* the gameover branch with the score taken back as well
gameover_branch_clears_score(g, x) ==
  LET g1 == [g EXCEPT !.step_ms = 1000, !.score = 0]
  IN IF g1.command = CMD_START THEN init_game(g1, x) ELSE g1

\* the gameover branch of check_handle_command
gameover_branch(g, x) ==
  LET g1 == [g EXCEPT !.step_ms = 1000]
  IN IF g1.command = CMD_START THEN init_game(g1, x) ELSE g1

\* check_handle_command from `if (gameover())` on; the exit(0) of its first
\* statement is the action Quit
check_handle_command(g0, x) ==
  Then(g0, LAMBDA g :
    IF gameover(g) THEN gameover_branch(g, x)
    ELSE IF timeout(g) THEN tick_branch(g, x)
    ELSE Then([g EXCEPT !.command = CMD_NONE],
              LAMBDA g1 : command_switch(g1, g.command, x)))

----------------------------------------------------------------------------
(* The main loop                                                            *)

Keys == { CMD_NONE, CMD_LEFT, CMD_RIGHT, CMD_ROTATE_CCW, CMD_ROTATE_CW,
          CMD_DROP, CMD_REDRAW, CMD_START, CMD_QUIT, CMD_CTRLC, KEY_OTHER }

MoveKeys == { CMD_LEFT, CMD_RIGHT, CMD_ROTATE_CCW, CMD_ROTATE_CW }

\* the exit test without CMD_CTRLC
QuitKeys_q_only == { CMD_QUIT }

QuitKeys == { CMD_QUIT, CMD_CTRLC }

\* the globals as check_handle_command finds them; draws and oob record what
\* this call does
Entry == [Cur EXCEPT !.draws = <<>>, !.oob = FALSE]

Commit(g) ==
  /\ board' = g.board
  /\ current_index' = g.current_index
  /\ current_block' = g.current_block
  /\ current_rotation' = g.current_rotation
  /\ current_row' = g.current_row
  /\ current_col' = g.current_col
  /\ lines' = g.lines
  /\ level' = g.level
  /\ score' = g.score
  /\ step_ms' = g.step_ms
  /\ MAX_level' = g.MAX_level
  /\ vtime' = g.vtime
  /\ removed_rows' = g.removed_rows
  /\ state' = g.state
  /\ command' = g.command
  /\ draws' = g.draws
  /\ screen' = g.screen
  /\ oob' = g.oob

\* the globals before main() has run: static storage is zero, step_ms = 200,
\* MAX_level = 9
Blank ==
  [ board |-> EmptyBoard, current_index |-> 0,
    current_block |-> <<0, 0, 0, 0>>, current_rotation |-> 0,
    current_row |-> 0, current_col |-> 0, lines |-> 0, level |-> 0,
    score |-> 0, step_ms |-> 200, MAX_level |-> 9, vtime |-> 0,
    removed_rows |-> 0, state |-> 0, command |-> 0,
    draws |-> <<>>, screen |-> BlankScreen, oob |-> FALSE ]

\* -x on the command line sets MAX_level = 10
main_options(g, x_flag) ==
  IF x_flag THEN [g EXCEPT !.MAX_level = 10] ELSE g

\* the globals have the values of g
Holds(g) ==
  /\ board = g.board
  /\ current_index = g.current_index
  /\ current_block = g.current_block
  /\ current_rotation = g.current_rotation
  /\ current_row = g.current_row
  /\ current_col = g.current_col
  /\ lines = g.lines
  /\ level = g.level
  /\ score = g.score
  /\ step_ms = g.step_ms
  /\ MAX_level = g.MAX_level
  /\ vtime = g.vtime
  /\ removed_rows = g.removed_rows
  /\ state = g.state
  /\ command = g.command
  /\ draws = g.draws
  /\ screen = g.screen
  /\ oob = g.oob

\* after init_game() in main(): the board is empty and the first block is out
Init ==
  /\ \E x \in RandKinds : \E g \in { init_game(Blank, x) } : Holds(g)
  /\ pc = "check"
  /\ expired = FALSE
  /\ served = <<"none", 0, FALSE>>
  /\ nmoves = 0
  /\ nticks = 0
  /\ call = <<>>
  /\ ret = <<>>

\* the block would be locked by a fall attempt
WouldLock == ~test_if_block_fits([Cur EXCEPT !.current_row = current_row + 1])

\* isr() that sets TIMEOUT whether or not a byte was read
isr_timeout_with_key(g, key, exp) ==
  [g EXCEPT !.command = key,
            !.state = IF exp THEN OrBit(g.state, 1) ELSE g.state]

\* what isr() stores: key is the byte read (0 when read() returned nothing),
\* exp the outcome of tdiff > MS_TIMEOUT
isr(g, key, exp) ==
  [g EXCEPT !.command = key,
            !.state = IF exp /\ key = 0 THEN OrBit(g.state, 1) ELSE g.state]

Isr(key, exp) ==
  /\ pc = "isr"
  /\ \E g \in { isr(Cur, key, exp) } : Commit(g)
  /\ expired' = exp
  /\ served' = <<"none", 0, FALSE>>
  /\ pc' = "check"
  /\ UNCHANGED <<call, ret>>

\* the inputs Spec lets isr() see
Poll ==
  \E key \in Keys, exp \in BOOLEAN :
    /\ key \in MoveKeys => nmoves < MaxMoves
    /\ (key = CMD_DROP /\ ~gameover(Cur)) => score < MaxScore
    /\ (exp /\ key = 0 /\ ~gameover(Cur)) =>
          /\ nticks < MaxTicks
          /\ WouldLock => score < MaxScore
    /\ Isr(key, exp)
    /\ nmoves' = IF key \in MoveKeys THEN nmoves + 1 ELSE nmoves
    /\ nticks' = IF exp /\ key = 0 /\ ~gameover(Cur)
                 THEN nticks + 1 ELSE nticks

\* if(command == CMD_QUIT || command == CMD_CTRLC) exit(0);
Quit ==
  /\ pc = "check"
  /\ command \in QuitKeys
  /\ pc' = "exited"
  /\ call' = <<"exit", 0>>
  /\ UNCHANGED <<board, current_index, current_block, current_rotation,
                 current_row, current_col, lines, level, score, step_ms,
                 MAX_level, vtime, removed_rows,
                 state, command, expired, draws, screen, oob,
                 served, nmoves, nticks, ret>>

\* one call of check_handle_command past the exit test, then back to isr();
\* after a store outside board[] the behaviour is undefined: either nothing
\* the model holds was hit and the loop goes on, or the run leaves the model
Serve(x) ==
  /\ pc = "check"
  /\ command \notin QuitKeys
  /\ \E g \in { check_handle_command(Entry, x) } :
        /\ Commit(g)
        /\ pc' \in (IF g.oob THEN {"isr", "undefined"} ELSE {"isr"})
        /\ served' = << IF gameover(Cur) THEN "gameover"
                        ELSE IF timeout(Cur) THEN "tick" ELSE "command",
                        command,
                        <<g.current_index, g.current_rotation, g.current_row,
                          g.current_col>> #
                        <<current_index, current_rotation, current_row,
                          current_col>> >>
  /\ expired' = FALSE
  /\ UNCHANGED <<call, ret>>

Running == ~gameover(Cur)

\* no rand() call is made on this path
NoRand == 0

GameOverIdle ==
  /\ gameover(Cur) /\ command # CMD_START
  /\ Serve(NoRand)
  /\ UNCHANGED <<nmoves, nticks>>

GameOverStart ==
  /\ gameover(Cur) /\ command = CMD_START
  /\ \E x \in RandKinds : Serve(x)
  /\ nmoves' = 0 /\ nticks' = 0

Tick ==
  /\ Running /\ timeout(Cur)
  /\ \E x \in RandKinds : Serve(x)
  /\ UNCHANGED <<nmoves, nticks>>

CmdNone ==
  /\ Running /\ ~timeout(Cur) /\ command = CMD_NONE
  /\ Serve(NoRand)
  /\ UNCHANGED <<nmoves, nticks>>

CmdLeft ==
  /\ Running /\ ~timeout(Cur) /\ command = CMD_LEFT
  /\ Serve(NoRand)
  /\ UNCHANGED <<nmoves, nticks>>

CmdRight ==
  /\ Running /\ ~timeout(Cur) /\ command = CMD_RIGHT
  /\ Serve(NoRand)
  /\ UNCHANGED <<nmoves, nticks>>

CmdRotateCCW ==
  /\ Running /\ ~timeout(Cur) /\ command = CMD_ROTATE_CCW
  /\ Serve(NoRand)
  /\ UNCHANGED <<nmoves, nticks>>

CmdRotateCW ==
  /\ Running /\ ~timeout(Cur) /\ command = CMD_ROTATE_CW
  /\ Serve(NoRand)
  /\ UNCHANGED <<nmoves, nticks>>

CmdDrop ==
  /\ Running /\ ~timeout(Cur) /\ command = CMD_DROP
  /\ \E x \in RandKinds : Serve(x)
  /\ UNCHANGED <<nmoves, nticks>>

CmdRedraw ==
  /\ Running /\ ~timeout(Cur) /\ command = CMD_REDRAW
  /\ Serve(NoRand)
  /\ UNCHANGED <<nmoves, nticks>>

CmdStart ==
  /\ Running /\ ~timeout(Cur) /\ command = CMD_START
  /\ \E x \in RandKinds : Serve(x)
  /\ nmoves' = 0 /\ nticks' = 0

CmdDefault ==
  /\ Running /\ ~timeout(Cur) /\ command = KEY_OTHER
  /\ Serve(NoRand)
  /\ UNCHANGED <<nmoves, nticks>>

Next ==
  \/ Poll
  \/ Quit
  \/ GameOverIdle
  \/ GameOverStart
  \/ Tick
  \/ CmdNone
  \/ CmdLeft
  \/ CmdRight
  \/ CmdRotateCCW
  \/ CmdRotateCW
  \/ CmdDrop
  \/ CmdRedraw
  \/ CmdStart
  \/ CmdDefault

Spec == Init /\ [][Next]_vars

----------------------------------------------------------------------------
(* SpecLive: the main loop of Spec with ticks that never run out.  The loop *)
(* of main() calls isr() and check_handle_command in turn and ends with     *)
(* exit() only, so that the next call is made whenever there is one; how    *)
(* often the step deadline expires at a poll that reads no byte is left to  *)
(* the clock and the keyboard.                                              *)

LiveKeys == { CMD_NONE, CMD_LEFT, CMD_RIGHT, CMD_ROTATE_CW, CMD_DROP,
              CMD_REDRAW, CMD_START, CMD_QUIT }

\* isr() at an expired deadline with no byte read: a Tick is delivered
TickPoll ==
  /\ Running
  /\ WouldLock => score < MaxScore
  /\ Isr(CMD_NONE, TRUE)
  /\ UNCHANGED <<nmoves, nticks>>

\* any other poll of isr()
PollLive ==
  \E key \in LiveKeys, exp \in BOOLEAN :
    /\ ~(key = CMD_NONE /\ exp /\ Running)
    /\ key \in MoveKeys => nmoves < MaxMoves
    /\ (key = CMD_DROP /\ ~gameover(Cur)) => score < MaxScore
    /\ Isr(key, exp)
    /\ nmoves' = IF key \in MoveKeys THEN nmoves + 1 ELSE nmoves
    /\ nticks' = nticks

\* check_handle_command called with what isr() has stored
CheckLive ==
  \/ Quit
  \/ GameOverIdle
  \/ GameOverStart
  \/ Tick
  \/ CmdNone
  \/ CmdLeft
  \/ CmdRight
  \/ CmdRotateCW
  \/ CmdDrop
  \/ CmdRedraw
  \/ CmdStart

NextLive ==
  \/ TickPoll
  \/ PollLive
  \/ CheckLive

SpecLive ==
  /\ Init
  /\ [][NextLive]_vars
  /\ WF_vars(TickPoll \/ PollLive)

----------------------------------------------------------------------------
(* SpecMoves: the move and rotate commands on every kind of block.  The game *)
(* starts after init_game, or after five 1x4 bars have been dropped where    *)
(* they appear (a pile in column 6 that ends just under the new block), and  *)
(* reads the four move keys and ticks that let the block fall.               *)

\* check_handle_command serving byte key with the globals g
served_key(g0, key, x) ==
  Then(g0, LAMBDA g :
    check_handle_command([g EXCEPT !.command = key, !.draws = <<>>,
                                   !.oob = FALSE], x))

\* n bars dropped one after the other, each where it appears
RECURSIVE bars_dropped(_, _)
bars_dropped(g, n) ==
  IF n = 0 THEN g
  ELSE Then(served_key(g, CMD_DROP, 3), LAMBDA ng : bars_dropped(ng, n - 1))

\* the globals when the block of kind x has appeared on a pile of n bars
OnPile(n, x) ==
  IF n = 0 THEN served_key(init_game(Blank, x), CMD_NONE, NoRand)
  ELSE Then(init_game(Blank, 3), LAMBDA g0 :
         Then(bars_dropped(g0, n - 1), LAMBDA g :
           served_key(g, CMD_DROP, x)))

InitMoves ==
  /\ \E n \in {0, 5}, x \in AllKinds : \E g \in { OnPile(n, x) } : Holds(g)
  /\ pc = "check"
  /\ expired = FALSE
  /\ served = <<"none", 0, FALSE>>
  /\ nmoves = 0
  /\ nticks = 0
  /\ call = <<>>
  /\ ret = <<>>

PollMoves ==
  \E key \in MoveKeys \cup {CMD_NONE}, exp \in BOOLEAN :
    /\ (exp /\ key = 0) => (nticks < MaxFall /\ ~WouldLock)
    /\ Isr(key, exp)
    /\ nticks' = IF exp /\ key = 0 THEN nticks + 1 ELSE nticks
    /\ UNCHANGED nmoves

NextMoves ==
  \/ PollMoves
  \/ Tick
  \/ CmdNone
  \/ CmdLeft
  \/ CmdRight
  \/ CmdRotateCCW
  \/ CmdRotateCW

SpecMoves == InitMoves /\ [][NextMoves]_vars

----------------------------------------------------------------------------
(* SpecCatalog: rotate_block and create_rotated_block called on their own,  *)
(* and display_block and copy_block_to_gameboard called on every mask       *)

\* the globals with the block of kind x in rotation rot, where it appears
Rotated(x, rot) ==
  Then(init_game(Blank, x), LAMBDA g :
    [g EXCEPT !.current_rotation = rot,
              !.current_block = create_rotated_block(x, rot)])

InitCatalog ==
  /\ \E x \in AllKinds, rot \in 0 .. 3 : \E g \in { Rotated(x, rot) } : Holds(g)
  /\ pc = "call"
  /\ expired = FALSE
  /\ served = <<"none", 0, FALSE>>
  /\ nmoves = 0
  /\ nticks = 0
  /\ call = <<>>
  /\ ret = <<>>

\* rotate_block(r) on the globals; ret keeps the rotation and the mask the
\* call found
RotateBlock(r) ==
  /\ \E g \in { rotate_block(Cur, r) } : Commit(g)
  /\ call' = <<"rotate_block", r>>
  /\ ret' = <<current_rotation, current_block>>
  /\ pc' = "return"
  /\ UNCHANGED <<expired, served, nmoves, nticks>>

RotateBlockCall == \E r \in {1, 0 - 1} : RotateBlock(r)

\* create_rotated_block(current_index, r) for a rotation byte r, which
\* writes the mask into current_block0..3 and nothing else; ret keeps the
\* mask the call found
CreateRotatedCall ==
  /\ \E r \in 0 .. MaxRot :
        /\ call' = <<"create_rotated_block", current_index, r>>
        /\ current_block' = create_rotated_block(current_index, r)
  /\ ret' = current_block
  /\ pc' = "return"
  /\ UNCHANGED <<board, current_index, current_rotation,
                 current_row, current_col, lines, level, score, step_ms,
                 MAX_level, vtime, removed_rows,
                 state, command, draws, screen, oob, expired,
                 served, nmoves, nticks>>

\* display_block(paintMode) on the globals init_game has left; ret keeps the
\* screen the call found
DisplayBlockCall ==
  /\ pc = "call"
  /\ \E mode \in {ERASE, PAINT_ACTIVE, PAINT_FIXED} :
        /\ \E g \in { display_block(Entry, mode) } : Commit(g)
        /\ call' = <<"display_block", mode>>
  /\ ret' = screen
  /\ pc' = "return"
  /\ UNCHANGED <<expired, served, nmoves, nticks>>

\* copy_block_to_gameboard() on the globals init_game has left; ret keeps
\* the board the call found
CopyBlockCall ==
  /\ pc = "call"
  /\ \E g \in { copy_block_to_gameboard(Entry) } : Commit(g)
  /\ call' = <<"copy_block_to_gameboard", 0>>
  /\ ret' = board
  /\ pc' = "return"
  /\ UNCHANGED <<expired, served, nmoves, nticks>>

NextCatalog ==
  \/ RotateBlockCall
  \/ CreateRotatedCall
  \/ DisplayBlockCall
  \/ CopyBlockCall

SpecCatalog == InitCatalog /\ [][NextCatalog]_vars

----------------------------------------------------------------------------
(* SpecBoard: setPixel and remove_row called on their own                   *)

\* boards to call setPixel and remove_row on: empty, full, the two stripe
\* patterns, a different byte everywhere, and the pile when five bars have
\* been dropped
BoardSamples ==
  { EmptyBoard,
    [x \in 0 .. (BOARD_BYTES - 1) |-> 255],
    [x \in 0 .. (BOARD_BYTES - 1) |-> 85],
    [x \in 0 .. (BOARD_BYTES - 1) |-> 170],
    [x \in 0 .. (BOARD_BYTES - 1) |-> (x * 37 + 11) % 256],
    OnPile(5, 3).board }

InitBoard ==
  /\ \E b \in BoardSamples : Holds([Blank EXCEPT !.board = b])
  /\ pc = "call"
  /\ expired = FALSE
  /\ served = <<"none", 0, FALSE>>
  /\ nmoves = 0
  /\ nticks = 0
  /\ call = <<>>
  /\ ret = <<>>

\* setPixel(row, col, val) on board; ret keeps the board the call found
SetPixelCall ==
  /\ pc = "call"
  /\ \E row \in 0 .. (ROWS - 1), col \in 0 .. (COLS - 1), val \in {0, 1} :
        /\ board' = setPixel(board, row, col, val)
        /\ call' = <<"setPixel", row, col, val>>
  /\ ret' = board
  /\ pc' = "return"
  /\ UNCHANGED <<current_index, current_block, current_rotation,
                 current_row, current_col, lines, level, score, step_ms,
                 MAX_level, vtime, removed_rows,
                 state, command, draws, screen, oob, expired,
                 served, nmoves, nticks>>

\* remove_row(row) on board; ret keeps the board the call found
RemoveRowCall ==
  /\ pc = "call"
  /\ \E row \in 0 .. (ROWS - 1) :
        /\ board' = remove_row(board, row)
        /\ call' = <<"remove_row", row>>
  /\ ret' = board
  /\ pc' = "return"
  /\ UNCHANGED <<current_index, current_block, current_rotation,
                 current_row, current_col, lines, level, score, step_ms,
                 MAX_level, vtime, removed_rows,
                 state, command, draws, screen, oob, expired,
                 served, nmoves, nticks>>

NextBoard ==
  \/ SetPixelCall
  \/ RemoveRowCall

SpecBoard == InitBoard /\ [][NextBoard]_vars

----------------------------------------------------------------------------
(* SpecFits: test_if_block_fits called on its own                           *)

\* anchors from three columns left of the board to the column right of it,
\* and from the top row to the row below the floor
FitCols == (0 - 3) .. COLS
FitRows == 0 .. ROWS

InitFits ==
  /\ \E b \in {EmptyBoard, OnPile(5, 3).board}, x \in AllKinds,
        rot \in 0 .. 3, row \in FitRows, col \in FitCols :
        Holds([Blank EXCEPT !.board = b, !.current_index = x,
                            !.current_rotation = rot,
                            !.current_block = create_rotated_block(x, rot),
                            !.current_row = row, !.current_col = col])
  /\ pc = "call"
  /\ expired = FALSE
  /\ served = <<"none", 0, FALSE>>
  /\ nmoves = 0
  /\ nticks = 0
  /\ call = <<>>
  /\ ret = <<>>

\* test_if_block_fits() on the globals; ret is the bit it returns
TestFitsCall ==
  /\ pc = "call"
  /\ \E r \in { test_if_block_fits_call(Cur) } :
        /\ Commit(r[1])
        /\ ret' = r[2]
  /\ call' = <<"test_if_block_fits">>
  /\ pc' = "return"
  /\ UNCHANGED <<expired, served, nmoves, nticks>>

\* test_if_block_fits() called once more on the globals the first call has
\* left; ret is <<the bit of the first call, the bit of this one>>
TestFitsAgain ==
  /\ pc = "return"
  /\ call = <<"test_if_block_fits">>
  /\ \E r \in { test_if_block_fits_call(Cur) } :
        /\ Commit(r[1])
        /\ ret' = <<ret, r[2]>>
  /\ call' = <<"test_if_block_fits_again">>
  /\ pc' = "return"
  /\ UNCHANGED <<expired, served, nmoves, nticks>>

NextFits ==
  \/ TestFitsCall
  \/ TestFitsAgain

SpecFits == InitFits /\ [][NextFits]_vars

----------------------------------------------------------------------------
(* SpecLevels: the main loop of games in which rows get cleared, one at a    *)
(* time or four at once.  A game is                                         *)
(* taken up when its keys have left row 23 complete but for the columns      *)
(* 4..7, where the bar turned flat falls without a move to the side; it then *)
(* reads Left, Right, Rotate, Drop, Redraw and Start keys and ticks.         *)

\* check_handle_command serving the bytes ks[lo + 1] .. ks[hi] one after the
\* other, every block that appears being the bar
RECURSIVE keys_range(_, _, _, _)
keys_range(g, ks, lo, hi) ==
  IF hi = lo + 1 THEN served_key(g, ks[hi], 3)
  ELSE Then(keys_range(g, ks, lo, (lo + hi) \div 2),
            LAMBDA ng : keys_range(ng, ks, (lo + hi) \div 2, hi))

\* check_handle_command serving the bytes of ks, which is not empty
keys_served(g0, ks) ==
  Then(g0, LAMBDA g : keys_range(g, ks, 0, Len(ks)))

\* the bar laid flat on columns 0..3
FlatLeft ==
  <<CMD_ROTATE_CW, CMD_LEFT, CMD_LEFT, CMD_LEFT, CMD_LEFT, CMD_DROP>>

\* the bar laid flat on columns 4..7
FlatMiddle == <<CMD_ROTATE_CW, CMD_DROP>>

\* the bar stood in column 8, the bar stood in column 9
UprightRight ==
  <<CMD_RIGHT, CMD_RIGHT, CMD_DROP, CMD_RIGHT, CMD_RIGHT, CMD_RIGHT, CMD_DROP>>

\* row 23 of g made complete but for the columns 4..7
WellDug(g) ==
  Then(keys_served(g, FlatLeft), LAMBDA g1 :
    IF occupied(g1.board, ROWS - 1, 8) THEN g1
    ELSE keys_served(g1, UprightRight))

\* hi - lo times: the flat bar dropped into the open columns of row 23,
\* which clears the row, and row 23 dug again
RECURSIVE rows_cleared(_, _, _)
rows_cleared(g, lo, hi) ==
  IF hi = lo + 1
  THEN Then(keys_served(g, FlatMiddle), LAMBDA g1 : WellDug(g1))
  ELSE Then(rows_cleared(g, lo, (lo + hi) \div 2),
            LAMBDA ng : rows_cleared(ng, (lo + hi) \div 2, hi))

\* the game started with the options of g0 in which n rows have been
\* cleared, one at a time, and the next is dug
Well(g0, n) ==
  Then(WellDug(init_game(g0, 3)), LAMBDA g :
    IF n = 0 THEN g ELSE rows_cleared(g, 0, n))

\* the score of the long game, 4294967294
LongScore == AsU32(65535, 65534)

\* the game started with the options of g0 in which 1717986916 rows have
\* been cleared as Well clears them: four rows more take ten locks more and
\* leave the board, the screen, the level 9 and the step_ms 99 of
\* Well(g0, 8), whose score is 24; the rows are 8 + 4 * 429496727, so that
\* score is 24 + 10 * 429496727 = 4294967294
LongWell(g0) == [Well(g0, 8) EXCEPT !.score = LongScore]

\* five bars stood on each other in column 6: the next one cannot fall
Tower(g) == keys_served(g, <<CMD_DROP, CMD_DROP, CMD_DROP, CMD_DROP, CMD_DROP>>)

\* the game started with the options of g0 in which the rows 20..23 are
\* complete but for column 9, and the bar stands at the top of column 9
DeepWell(g0) ==
  keys_served(init_game(g0, 3),
              FlatLeft \o FlatLeft \o FlatLeft \o FlatLeft \o
              FlatMiddle \o FlatMiddle \o FlatMiddle \o FlatMiddle \o
              <<CMD_RIGHT, CMD_RIGHT, CMD_DROP,
                CMD_RIGHT, CMD_RIGHT, CMD_RIGHT>>)

InitLevels ==
  /\ \E n \in 0 .. MaxClears, x_flag \in BOOLEAN :
        \E g \in { Well(main_options(Blank, x_flag), n) } :
           \E h \in { g, Tower(g) } \cup
                     (IF n = 0
                      THEN { keys_served(Tower(g), FlatMiddle),
                             DeepWell(main_options(Blank, x_flag)) }
                      ELSE {}) \cup
                     (IF n = 8 /\ ~x_flag THEN { LongWell(Blank) } ELSE {}) :
              Holds([h EXCEPT !.command = CMD_NONE])
  /\ pc = "isr"
  /\ expired = FALSE
  /\ served = <<"none", 0, FALSE>>
  /\ nmoves = 0
  /\ nticks = 0
  /\ call = <<>>
  /\ ret = <<>>

LevelKeys ==
  { CMD_NONE, CMD_LEFT, CMD_RIGHT, CMD_ROTATE_CW, CMD_DROP, CMD_REDRAW,
    CMD_START }

\* the inputs SpecLevels lets isr() see: MaxKeys Rotate and Drop keys, or
\* one Left or Right key in their place
PollLevels ==
  \E key \in LevelKeys, exp \in BOOLEAN :
    /\ key \in {CMD_ROTATE_CW, CMD_DROP} => nmoves < MaxKeys
    /\ key \in {CMD_LEFT, CMD_RIGHT} => nmoves = 0
    /\ (exp /\ key = 0 /\ ~gameover(Cur)) => nticks < MaxTicks
    /\ Isr(key, exp)
    /\ nmoves' = IF key \in {CMD_LEFT, CMD_RIGHT} THEN MaxKeys
                 ELSE IF key \in {CMD_ROTATE_CW, CMD_DROP} THEN nmoves + 1
                 ELSE nmoves
    /\ nticks' = IF exp /\ key = 0 /\ ~gameover(Cur)
                 THEN nticks + 1 ELSE nticks

NextLevels ==
  \/ PollLevels
  \/ GameOverIdle
  \/ GameOverStart
  \/ Tick
  \/ CmdNone
  \/ CmdLeft
  \/ CmdRight
  \/ CmdRotateCW
  \/ CmdDrop
  \/ CmdRedraw
  \/ CmdStart

SpecLevels == InitLevels /\ [][NextLevels]_vars

----------------------------------------------------------------------------
(* SpecClear: check_remove_completed_rows called on its own, on boards with *)
(* up to four complete rows, at every level that earlier calls can leave    *)

\* the board whose row r has the columns c set for which bit c of f[r] is 1
BoardOfRows(f) ==
  [x \in 0 .. (BOARD_BYTES - 1) |->
     LET bit(n) == IF (f[(x \div 10) * 8 + n] \div (2 ^ (x % 10))) % 2 = 1
                   THEN 2 ^ n ELSE 0
     IN bit(0) + bit(1) + bit(2) + bit(3) + bit(4) + bit(5) + bit(6) + bit(7)]

\* all ten columns of a row
FullRow == (2 ^ COLS) - 1

\* an incomplete row, a different one in every row; the two rows at the top
\* hold what one block can leave there
Filler(r) ==
  IF r = 0 THEN 64 ELSE IF r = 1 THEN 120 ELSE (r * 37 + 11) % FullRow

\* the first of the four rows that a locked block can complete
Windows == {2, 6, 13, ROWS - 4}

\* boards with the rows K complete, K inside one window, and the other rows
\* empty or filled with Filler
ClearSamples ==
  { BoardOfRows([r \in 0 .. (ROWS - 1) |->
                   IF r \in K THEN FullRow
                   ELSE IF filled THEN Filler(r) ELSE 0]) :
      K \in UNION { SUBSET (w .. (w + 3)) : w \in Windows },
      filled \in BOOLEAN }

\* the boards of ClearSamples, each with the screen that display_board
\* leaves of it after init_game
ClearPictures ==
  { << b, display_board([init_game(Blank, 3) EXCEPT !.board = b],
                        ROWSD).screen >> : b \in ClearSamples }

\* the board with the one complete row at the bottom
BottomRowFull ==
  BoardOfRows([r \in 0 .. (ROWS - 1) |-> IF r = ROWS - 1 THEN FullRow ELSE 0])

\* the globals after n calls of check_remove_completed_rows that have each
\* removed one row
RECURSIVE Levelled(_, _)
Levelled(g, n) ==
  IF n = 0 THEN g
  ELSE Then(Levelled(g, n - 1), LAMBDA h :
         check_remove_completed_rows(
            [h EXCEPT !.board = BottomRowFull, !.draws = <<>>]))

\* the globals after init_game and up to MaxClears such calls, without and
\* with the option -x
ClearStarts ==
  { Levelled(init_game(main_options(Blank, x_flag), 3), n) :
      n \in 0 .. MaxClears, x_flag \in BOOLEAN }

InitClear ==
  /\ \E g \in ClearStarts, p \in ClearPictures :
        Holds([g EXCEPT !.board = p[1], !.screen = p[2], !.draws = <<>>])
  /\ pc = "call"
  /\ expired = FALSE
  /\ served = <<"none", 0, FALSE>>
  /\ nmoves = 0
  /\ nticks = 0
  /\ call = <<>>
  /\ ret = <<>>

\* check_remove_completed_rows() on the globals; ret keeps the board, lines,
\* level and step_ms the call found
ClearCall ==
  /\ pc = "call"
  /\ \E g \in { check_remove_completed_rows(Entry) } : Commit(g)
  /\ call' = <<"check_remove_completed_rows">>
  /\ ret' = <<board, lines, level, step_ms>>
  /\ pc' = "return"
  /\ UNCHANGED <<expired, served, nmoves, nticks>>

NextClear == ClearCall

SpecClear == InitClear /\ [][NextClear]_vars

----------------------------------------------------------------------------
(* What the claims speak of                                                 *)

\* the cells of the 4x4 mask blk, as <<i, j>>
MaskCells(blk) ==
  { ij \in (0 .. 3) \X (0 .. 3) : getBlockPixel(blk, ij[1], ij[2]) }

\* the block blk anchored at (row, col) lies inside the columns, above the
\* floor, and on empty cells only
FitsAt(b, blk, row, col) ==
  \A ij \in MaskCells(blk) :
     /\ 0 <= col + ij[2] /\ col + ij[2] < COLS
     /\ row + ij[1] < ROWS
     /\ row + ij[1] >= 0 => ~occupied(b, row + ij[1], col + ij[2])

PieceFits == FitsAt(board, current_block, current_row, current_col)

AtPoll == pc = "isr"

----------------------------------------------------------------------------
(* The legacy variant, src/unnamed/part_000.  Its board, its fit test, its  *)
(* copy to the board, remove_row, cmd_move_left and cmd_move_right are the  *)
(* functions of tetris.c word for word and are modelled by the same         *)
(* operators.  It keeps lines, level and score in one unsigned char each,   *)
(* rotates the block in place, levels up every third row and sets the read  *)
(* timeout of isr() with level_speed.  What it sends to the terminal is not *)
(* part of this model: draws and screen stay as they are.                   *)

CMD_ROTATE == 107

\* the kinds create_random_block of the variant can draw: rand() & 0x7
LegacyKinds == 0 .. 7

getRawBlockPattern(index) ==
  IF index < 16
  THEN << 6, 96,  6, 96,  14, 64,  68, 68,
          12, 96,  6, 192,  14, 32,  14, 128 >>[index + 1]
  ELSE 255

create_block(index) ==
  LET t0 == getRawBlockPattern(U8(index + index))
      t1 == getRawBlockPattern(U8(index + index + 1))
  IN << t0 \div 16, t0 % 16, t1 \div 16, t1 % 16 >>

legacy_create_random_block(g, x) ==
  [g EXCEPT !.current_block = create_block(x)]

\* current_block<i> |= power_of_two(n)
updateBlockNibble(blk, i, n) == [blk EXCEPT ![i + 1] = OrBit(blk[i + 1], n)]

\* the passes k .. 15 of the two loops of rotate_block, pass k being
\* i = k \div 4, j = k % 4
RECURSIVE rotate_fill(_, _)
rotate_fill(blk, k) ==
  IF k = 16 THEN blk
  ELSE IF TestBit(getBlockNibble(blk, k \div 4), (k % 4) + 4)
  THEN rotate_fill(updateBlockNibble(blk, k % 4, 3 - (k \div 4)), k + 1)
  ELSE rotate_fill(blk, k + 1)

\* rotate_block of the variant: the lower nibbles go to the upper nibbles,
\* the loops fill the lower nibbles, and the upper nibbles are left as they
\* are
legacy_rotate_block(g) ==
  [g EXCEPT !.current_block =
              rotate_fill(<< U8(g.current_block[1] * 16),
                             U8(g.current_block[2] * 16),
                             U8(g.current_block[3] * 16),
                             U8(g.current_block[4] * 16) >>, 0)]

\* cmd_rotate that takes a rejected rotation back with two rotations
legacy_cmd_rotate_two_back(g) ==
  Then(legacy_rotate_block(g), LAMBDA g1 :
    IF test_if_block_fits(g1) THEN g1
    ELSE legacy_rotate_block(legacy_rotate_block(g1)))

legacy_cmd_rotate(g) ==
  Then(legacy_rotate_block(g), LAMBDA g1 :
    IF test_if_block_fits(g1) THEN g1
    ELSE legacy_rotate_block(legacy_rotate_block(legacy_rotate_block(g1))))

level_speed(g, lv) ==
  [g EXCEPT !.vtime = IF lv < 10 THEN 10 - lv ELSE 1]

\* row r is complete: remove_row and the count of lines, which levels up
\* with every row
legacy_remove_completed_every_row(g, r) ==
  LET g1 == [g EXCEPT !.board = remove_row(g.board, r),
                      !.removed_rows = g.removed_rows + 1]
  IN IF g1.level < 9
     THEN level_speed([g1 EXCEPT !.lines = 0, !.level = U8(g1.level + 1)],
                      U8(g1.level + 1))
     ELSE [g1 EXCEPT !.lines = 0]

\* row r is complete: remove_row and the count of lines, which levels up
\* at the third
legacy_remove_completed(g, r) ==
  LET g1 == [g EXCEPT !.board = remove_row(g.board, r),
                      !.removed_rows = g.removed_rows + 1]
      nl == U8(g1.lines + 1)
  IN IF nl = 3
     THEN IF g1.level < 9
          THEN level_speed([g1 EXCEPT !.lines = 0, !.level = U8(g1.level + 1)],
                           U8(g1.level + 1))
          ELSE [g1 EXCEPT !.lines = 0]
     ELSE [g1 EXCEPT !.lines = nl]

\* the passes r = lo .. hi-1 of the loop of check_remove_completed_rows
RECURSIVE legacy_remove_loop(_, _, _)
legacy_remove_loop(g, lo, hi) ==
  IF hi = lo + 1
  THEN IF is_complete_row(g.board, lo) THEN legacy_remove_completed(g, lo)
       ELSE g
  ELSE Then(legacy_remove_loop(g, lo, (lo + hi) \div 2),
            LAMBDA ng : legacy_remove_loop(ng, (lo + hi) \div 2, hi))

legacy_check_remove_completed_rows(g) == legacy_remove_loop(g, 0, ROWS)

legacy_cmd_move_down(g, x) ==
  Then([g EXCEPT !.current_row = g.current_row + 1], LAMBDA g1 :
    IF test_if_block_fits(g1) THEN g1
    ELSE LET g2 == IF g1.current_row <= 2
                   THEN [g1 EXCEPT !.state = OrBit(g1.state, 3)]
                   ELSE g1
             g3 == [g2 EXCEPT !.current_row = g1.current_row - 1]
         IN Then(copy_block_to_gameboard(g3), LAMBDA g4 :
              Then(legacy_check_remove_completed_rows(g4), LAMBDA g5 :
                legacy_create_random_block(
                  [g5 EXCEPT !.current_row = 0, !.current_col = 4,
                             !.score = U8(g5.score + SCORE_PER_BLOCK)], x))))

legacy_init_game(g, x) ==
  Then(clear_board(g.board), LAMBDA nb :
    LET g1 == [g EXCEPT !.board = nb, !.current_row = 0, !.current_col = 4]
        g2 == legacy_create_random_block(g1, x)
        g3 == [g2 EXCEPT !.score = SCORE_PER_BLOCK, !.lines = 0, !.level = 1,
                         !.removed_rows = 0]
        g4 == level_speed(g3, g3.level)
    IN [g4 EXCEPT !.state = STATE_IDLE, !.command = CMD_NONE])

\* check_handle_command of the variant from `if (gameover())` on; x is what
\* rand() & 0x7 gives where a block is created
legacy_check_handle_command(g0, x) ==
  Then(g0, LAMBDA g :
    IF gameover(g)
    THEN IF g.command = CMD_START THEN legacy_init_game(g, x) ELSE g
    ELSE IF timeout(g)
    THEN Then(legacy_cmd_move_down(g, x), LAMBDA g1 :
           [g1 EXCEPT !.state = ClearBit(OrBit(g1.state, 1), 1)])
    ELSE Then([g EXCEPT !.command = CMD_NONE], LAMBDA g1 :
           CASE g.command = CMD_LEFT -> cmd_move_left(g1)
             [] g.command = CMD_ROTATE -> legacy_cmd_rotate(g1)
             [] g.command = CMD_RIGHT -> cmd_move_right(g1)
             [] g.command = CMD_DROP ->
                  Then(drop_loop(g1), LAMBDA g2 :
                    legacy_cmd_move_down(
                      [g2 EXCEPT !.current_row = g2.current_row - 1], x))
             [] g.command = CMD_START -> legacy_init_game(g1, x)
             [] OTHER -> g1))

\* isr() of the variant: r is what read() returned, key the byte it stored
legacy_isr(g, r, key) ==
  IF r > 0 THEN [g EXCEPT !.command = key]
  ELSE [g EXCEPT !.command = 0, !.state = OrBit(g.state, 1)]

----------------------------------------------------------------------------
(* SpecLegacy: the main loop of the variant.  A game is taken up after      *)
(* rounds of five 2x2 squares, dropped side by side so that each round      *)
(* fills two rows and removes them, or four squares into such a round; it   *)
(* then reads Left, Right, Rotate, Drop, Redraw, Start and Quit keys and    *)
(* read timeouts.                                                           *)

\* the globals once vt100_initialize has set c_cc[VTIME] = 4
LegacyBlank == [Blank EXCEPT !.vtime = 4]

\* the kinds rand() & 0x7 gives in SpecLegacy: the square
LegacyRand == {0}

\* check_handle_command of the variant serving the bytes ks[lo + 1] .. ks[hi]
\* one after the other, every block that appears being the square
RECURSIVE legacy_keys_range(_, _, _, _)
legacy_keys_range(g, ks, lo, hi) ==
  IF hi = lo + 1
  THEN legacy_check_handle_command([g EXCEPT !.command = ks[hi],
                                             !.oob = FALSE], 0)
  ELSE Then(legacy_keys_range(g, ks, lo, (lo + hi) \div 2),
            LAMBDA ng : legacy_keys_range(ng, ks, (lo + hi) \div 2, hi))

legacy_keys_served(g0, ks) ==
  Then(g0, LAMBDA g : legacy_keys_range(g, ks, 0, Len(ks)))

\* squares dropped into the columns 0-1, 2-3, 6-7 and 8-9
FourSquares ==
  <<CMD_LEFT, CMD_LEFT, CMD_LEFT, CMD_LEFT, CMD_LEFT, CMD_DROP,
    CMD_LEFT, CMD_LEFT, CMD_LEFT, CMD_DROP,
    CMD_RIGHT, CMD_DROP,
    CMD_RIGHT, CMD_RIGHT, CMD_RIGHT, CMD_DROP>>

\* the square dropped into the columns 4-5
FifthSquare == <<CMD_LEFT, CMD_DROP>>

\* hi - lo rounds of five squares
RECURSIVE squares_rounds(_, _, _)
squares_rounds(g, lo, hi) ==
  IF hi = lo + 1 THEN legacy_keys_served(g, FourSquares \o FifthSquare)
  ELSE Then(squares_rounds(g, lo, (lo + hi) \div 2),
            LAMBDA ng : squares_rounds(ng, (lo + hi) \div 2, hi))

\* the game of the variant after n rounds
Rounds(n) ==
  Then(legacy_init_game(LegacyBlank, 0), LAMBDA g :
    IF n = 0 THEN g ELSE squares_rounds(g, 0, n))

InitLegacy ==
  /\ \E n \in (0 .. MaxRounds) \cup {LongGame} :
        \E g \in { Rounds(n) } :
           \E h \in { g, legacy_keys_served(g, FourSquares) } :
              Holds([h EXCEPT !.command = CMD_NONE, !.oob = FALSE])
  /\ pc = "isr"
  /\ expired = FALSE
  /\ served = <<"none", 0, FALSE>>
  /\ nmoves = 0
  /\ nticks = 0
  /\ call = <<>>
  /\ ret = <<>>

LegacyKeys == { CMD_LEFT, CMD_RIGHT, CMD_ROTATE, CMD_DROP, CMD_REDRAW,
                CMD_START, CMD_QUIT }

\* isr() of the variant: read() returns a byte, or nothing when the timeout
\* of c_cc[VTIME] has passed; MaxKeys move and Drop keys and MaxTicks
\* timeouts of a running game are read per game
LegacyIsr ==
  \E r \in {0, 1}, key \in LegacyKeys \cup {0} :
    /\ pc = "isr"
    /\ (r = 0) = (key = 0)
    /\ key \in {CMD_LEFT, CMD_RIGHT, CMD_ROTATE, CMD_DROP} => nmoves < MaxKeys
    /\ (r = 0 /\ ~gameover(Cur)) => nticks < MaxTicks
    /\ \E g \in { legacy_isr(Cur, r, key) } : Commit(g)
    /\ expired' = (r = 0)
    /\ served' = <<"none", 0, FALSE>>
    /\ pc' = "check"
    /\ nmoves' = IF key \in {CMD_LEFT, CMD_RIGHT, CMD_ROTATE, CMD_DROP}
                 THEN nmoves + 1 ELSE nmoves
    /\ nticks' = IF r = 0 /\ ~gameover(Cur) THEN nticks + 1 ELSE nticks
    /\ UNCHANGED <<call, ret>>

\* if(command == CMD_QUIT) exit(0);
LegacyQuit ==
  /\ pc = "check"
  /\ command = CMD_QUIT
  /\ pc' = "exited"
  /\ call' = <<"exit", 0>>
  /\ UNCHANGED <<board, current_index, current_block, current_rotation,
                 current_row, current_col, lines, level, score, step_ms,
                 MAX_level, vtime, removed_rows,
                 state, command, expired, draws, screen, oob,
                 served, nmoves, nticks, ret>>

\* init_game is about to run
LegacyStarts ==
  /\ pc = "check"
  /\ command = CMD_START
  /\ gameover(Cur) \/ ~timeout(Cur)

\* one call of check_handle_command of the variant past the exit test, then
\* back to isr(); after a store outside board[] the behaviour is undefined:
\* either nothing the model holds was hit and the loop goes on, or the run
\* leaves the model
LegacyServe ==
  /\ pc = "check"
  /\ command # CMD_QUIT
  /\ \E x \in LegacyRand :
        \E g \in { legacy_check_handle_command([Cur EXCEPT !.oob = FALSE],
                                               x) } :
           /\ Commit(g)
           /\ pc' \in (IF g.oob THEN {"isr", "undefined"} ELSE {"isr"})
           /\ served' = << IF gameover(Cur) THEN "gameover"
                           ELSE IF timeout(Cur) THEN "tick" ELSE "command",
                           command,
                           <<g.current_block, g.current_row, g.current_col>> #
                           <<current_block, current_row, current_col>> >>
  /\ expired' = FALSE
  /\ nmoves' = IF LegacyStarts THEN 0 ELSE nmoves
  /\ nticks' = IF LegacyStarts THEN 0 ELSE nticks
  /\ UNCHANGED <<call, ret>>

NextLegacy ==
  \/ LegacyIsr
  \/ LegacyQuit
  \/ LegacyServe

SpecLegacy == InitLegacy /\ [][NextLegacy]_vars

----------------------------------------------------------------------------
(* SpecTurns: rotate_block and cmd_rotate of the variant called on their    *)
(* own, on every kind of block in every orientation, at the top of an empty *)
(* board and in every column the block fits in.                             *)

\* the lower nibbles of current_block0..3, which getBlockPixel reads
Visible(blk) == << blk[1] % 16, blk[2] % 16, blk[3] % 16, blk[4] % 16 >>

\* the globals g after k calls of rotate_block
RECURSIVE turned(_, _)
turned(g, k) == IF k = 0 THEN g ELSE turned(legacy_rotate_block(g), k - 1)

InitTurns ==
  /\ \E x \in LegacyKinds, k \in 0 .. 3, c \in (0 - 2) .. 8 :
        \E g \in { turned(legacy_create_random_block(
                            [LegacyBlank EXCEPT !.current_col = c], x), k) } :
           /\ test_if_block_fits(g)
           /\ Holds(g)
           /\ ret = Visible(g.current_block)
  /\ pc = "call"
  /\ expired = FALSE
  /\ served = <<"none", 0, FALSE>>
  /\ nmoves = 0
  /\ nticks = 0
  /\ call = <<"none", 0>>

\* rotate_block(), at most MaxTurns times in a row; nmoves counts the calls
\* and ret is the visible mask before the first of them
LegacyRotateBlockCall ==
  /\ pc = "call"
  /\ nmoves < MaxTurns
  /\ \E g \in { legacy_rotate_block(Cur) } : Commit(g)
  /\ nmoves' = nmoves + 1
  /\ call' = <<"rotate_block", nmoves + 1>>
  /\ UNCHANGED <<pc, expired, served, nticks, ret>>

\* cmd_rotate() on a block that fits where it is; call is the bit the fit
\* test of the rotated block returned, ret the visible mask the command
\* leaves, before the first of the rotate_block calls that follow
LegacyCmdRotateCall ==
  /\ pc = "call"
  /\ test_if_block_fits(Cur)
  /\ \E g \in { legacy_cmd_rotate(Cur) } : Commit(g)
  /\ call' = <<"cmd_rotate",
               IF test_if_block_fits(legacy_rotate_block(Cur)) THEN 1 ELSE 0>>
  /\ ret' = Visible(current_block')
  /\ nmoves' = 0
  /\ UNCHANGED <<pc, expired, served, nticks>>

NextTurns ==
  \/ LegacyRotateBlockCall
  \/ LegacyCmdRotateCall

SpecTurns == InitTurns /\ [][NextTurns]_vars

----------------------------------------------------------------------------
(* C1 *)

\* C1: a Tick takes precedence over a pending command: when the step deadline
\* has expired during the poll of a running game, check_handle_command finds
\* the TIMEOUT flag set, whether or not a key was read in that poll.
C1_TickTakesPrecedence ==
  (pc = "check" /\ Running /\ expired) => timeout(Cur)

----------------------------------------------------------------------------
(* C2 *)

\* C2: at every poll of a running game the active block fits the board: no
\* cell of its mask is outside columns 0..9, below row 23 or on an occupied
\* cell; a block just spawned at row 0, column 4 does not overlap fixed cells.
C2_ActivePieceFits ==
  (AtPoll /\ Running) => PieceFits

----------------------------------------------------------------------------
(* C3 *)

\* C3: no sequence of Ticks and commands makes copy_block_to_gameboard call
\* setPixel with a row outside 0..23 or a column outside 0..9, so no store
\* goes outside board[0..29]; the anchor row is not negative when the block
\* is locked.
C3_PixelArgsInBounds ==
  ~oob

----------------------------------------------------------------------------
(* C4 *)

\* a block was locked and its successor spawned in this step
SpawnStep ==
  /\ pc = "check" /\ Running
  /\ score' = score + SCORE_PER_BLOCK

\* C4: every step that spawns a block which does not fit at its spawn
\* position ends in GameOver: no overlapping block is handed to the player in
\* Running status.
C4_OverlappingSpawnEndsGame ==
  [][ (SpawnStep /\ ~FitsAt(board', current_block', current_row',
                            current_col'))
        => TestBit(state', 3) ]_vars

----------------------------------------------------------------------------
(* C5 *)

\* C5: in GameOver every step other than the processing of Start leaves the
\* board, the block (kind, rotation, mask, row, column), score, lines and
\* level alone and keeps the status GameOver; a call of check_handle_command
\* made in GameOver without Start draws nothing; the status leaves GameOver
\* only in the step that processes Start.
C5_GameOverFrozen ==
  [][ /\ (gameover(Cur) /\ ~(pc = "check" /\ command = CMD_START)) =>
           /\ UNCHANGED <<board, current_index, current_rotation,
                          current_block, current_row, current_col, score,
                          lines, level>>
           /\ TestBit(state', 3)
           /\ (pc = "check" /\ pc' # "exited") => draws' = <<>>
      /\ (gameover(Cur) /\ ~TestBit(state', 3)) =>
           (pc = "check" /\ command = CMD_START) ]_vars

\* a Tick was delivered in GameOver (its flag is still set) and a Drop has
\* just been consumed there
C5_Witness ==
  /\ AtPoll /\ gameover(Cur) /\ timeout(Cur)
  /\ served = <<"gameover", CMD_DROP, FALSE>>

----------------------------------------------------------------------------
(* C6 *)

\* the block of g as the claims speak of it
Piece(g) ==
  <<g.current_index, g.current_rotation, g.current_block, g.current_row,
    g.current_col>>

\* what the command byte key asks for, applied to g without any test
Transformed(g, key) ==
  CASE key = CMD_LEFT -> [g EXCEPT !.current_col = g.current_col - 1]
    [] key = CMD_RIGHT -> [g EXCEPT !.current_col = g.current_col + 1]
    [] key = CMD_ROTATE_CW ->
         [g EXCEPT !.current_rotation = (g.current_rotation + 3) % 4,
                   !.current_block =
                      create_rotated_block(g.current_index,
                                           (g.current_rotation + 3) % 4)]
    [] key = CMD_ROTATE_CCW ->
         [g EXCEPT !.current_rotation = (g.current_rotation + 1) % 4,
                   !.current_block =
                      create_rotated_block(g.current_index,
                                           (g.current_rotation + 1) % 4)]

\* C6: Left, Right, RotateCW and RotateCCW processed in Running status leave
\* the block either transformed (column - 1, column + 1, rotation - 1 mod 4,
\* rotation + 1 mod 4) in a position that fits, or exactly as it was (kind,
\* rotation, mask, row, column); row, board, score, lines, level and step_ms
\* do not change either way.
C6_MoveCommitsOrReverts ==
  [][ (pc = "check" /\ Running /\ ~timeout(Cur) /\ command \in MoveKeys) =>
        /\ \/ /\ Piece(Cur)' = Piece(Transformed(Cur, command))
              /\ PieceFits'
           \/ Piece(Cur)' = Piece(Cur)
        /\ UNCHANGED <<current_row, board, score, lines, level, step_ms>>
    ]_vars

\* a clockwise rotation that had no room, at a wall or at the pile, has been
\* rejected
C6_Witness ==
  /\ AtPoll
  /\ served = <<"command", CMD_ROTATE_CW, FALSE>>
  /\ ~FitsAt(board, Transformed(Cur, CMD_ROTATE_CW).current_block,
             current_row, current_col)

----------------------------------------------------------------------------
(* C7 *)

\* C7: rotate_block(r) followed by rotate_block(-r) restores the rotation and
\* the four mask nibbles, for r = +1 and r = -1, from every rotation of every
\* kind whose mask current_block0..3 hold; the kind is not touched.
C7_RotateBackIsIdentity ==
  (/\ pc = "return" /\ call[1] = "rotate_block"
   /\ ret[2] = create_rotated_block(current_index, ret[1])) =>
     \E back \in { rotate_block(Cur, 0 - call[2]) } :
        /\ <<back.current_rotation, back.current_block>> = ret
        /\ back.current_index = current_index

\* the bar has been rotated by -1 from rotation 0, which wraps to rotation 3
\* and changes the mask
C7_Witness ==
  /\ pc = "return" /\ call = <<"rotate_block", 0 - 1>>
  /\ current_index = 3 /\ current_rotation = 3
  /\ ret[1] = 0 /\ ret[2] # current_block

----------------------------------------------------------------------------
(* C8 *)

\* rotate_block(r) four times
Rot4(g, r) == rotate_block(rotate_block(rotate_block(rotate_block(g, r), r), r), r)

\* C8: the mask create_rotated_block makes for a rotation byte r is the mask
\* it makes for r + 4; four rotate_block steps in one direction bring back
\* the rotation and, where current_block0..3 hold the mask of the rotation,
\* the mask; the four masks of the square are one mask.
C8_RotationPeriodFour ==
  /\ (pc = "return" /\ call[1] = "create_rotated_block") =>
        current_block = create_rotated_block(call[2], call[3] + 4)
  /\ \A r \in {1, 0 - 1} :
        /\ Rot4(Cur, r).current_rotation = current_rotation
        /\ current_block =
              create_rotated_block(current_index, current_rotation) =>
              Rot4(Cur, r).current_block = current_block
  /\ current_index = 1 =>
        \A q \in 0 .. 3 : create_rotated_block(1, q) = current_block

\* the mask of the blue L has been made for rotation byte 6, and it is not
\* the mask of rotation 0 that the call found
C8_Witness ==
  /\ pc = "return" /\ call = <<"create_rotated_block", 6, 6>>
  /\ current_rotation = 0
  /\ ret = create_rotated_block(6, 0)
  /\ ret # current_block

----------------------------------------------------------------------------
(* C9 *)

\* C9: after setPixel(r, c, v) with r in 0..23, c in 0..9 and v in {0, 1},
\* occupied(r, c) is v, and occupied(r2, c2) is what it was for every other
\* cell (r2, c2) of the board.
C9_SetThenGet ==
  (pc = "return" /\ call[1] = "setPixel") =>
     /\ occupied(board, call[2], call[3]) = (call[4] = 1)
     /\ \A r2 \in 0 .. (ROWS - 1), c2 \in 0 .. (COLS - 1) :
           <<r2, c2>> # <<call[2], call[3]>> =>
              occupied(board, r2, c2) = occupied(ret, r2, c2)

\* a cell of the third band of rows has been cleared on a board where it was
\* set
C9_Witness ==
  /\ pc = "return" /\ call = <<"setPixel", 17, 9, 0>>
  /\ occupied(ret, 17, 9)
  /\ ~occupied(board, 17, 9)

----------------------------------------------------------------------------
(* C10 *)

\* C10: test_if_block_fits returns 1 exactly when every cell (i, j) of the
\* mask has 0 <= current_col + j < 10, current_row + i < 24 and an empty
\* board cell under it, and 0 otherwise; nothing is rejected for being at the
\* top.
C10_FitsExactly ==
  (pc = "return" /\ call[1] = "test_if_block_fits") =>
     /\ ret \in {0, 1}
     /\ ret = 1 <=> PieceFits

\* accepted: the vertical bar standing on the floor with its cells in column
\* 9, the anchor two columns left of them
C10_Witness ==
  /\ pc = "return" /\ call[1] = "test_if_block_fits"
  /\ ret = 1
  /\ current_index = 3 /\ current_rotation = 0
  /\ current_row = ROWS - 4
  /\ \E ij \in MaskCells(current_block) : current_col + ij[2] = COLS - 1

----------------------------------------------------------------------------
(* C11 *)

\* globals with the board and the block (kind, rotation, mask, row and
\* column) of the current ones, and with another score, lines, level,
\* step_ms, state and command
SameBoardAndBlock ==
  { [Cur EXCEPT !.score = v[1], !.lines = v[2], !.level = v[3],
                !.step_ms = v[4], !.state = v[5], !.command = v[6]] :
      v \in { <<1, 0, 1, 1000, 1, CMD_NONE>>,
              <<7, 0, 4, 421, 3, CMD_LEFT>>,
              <<LongScore, 0, 9, 99, 9, CMD_DROP>>,
              <<0, 1, 10, 74, 8, CMD_ROTATE_CW>> } }

\* C11: a call of test_if_block_fits changes no variable of the game (board,
\* kind, rotation and mask of the block, row, column, score, lines, level,
\* state, command); a second call made on the state the first has left
\* returns the bit the first returned; and so does a call on any globals
\* that have the same board and block, whatever the other variables hold,
\* which it leaves as they are as well.
C11_FitsHasNoEffect ==
  [][ /\ pc' = "return" =>
           UNCHANGED <<board, current_index, current_rotation, current_block,
                       current_row, current_col, score, lines, level, state,
                       command>>
      /\ call'[1] = "test_if_block_fits_again" => ret'[1] = ret'[2]
      /\ call'[1] = "test_if_block_fits" =>
            \A g \in SameBoardAndBlock :
               test_if_block_fits_call(g) = << g, ret' >> ]_vars

\* the bar, reaching over the right wall above the pile, has been rejected
\* by two calls in a row
C11_Witness ==
  /\ pc = "return" /\ call = <<"test_if_block_fits_again">>
  /\ ret = <<0, 0>>
  /\ board # EmptyBoard
  /\ current_index = 3 /\ current_rotation = 1 /\ current_col = COLS - 3

----------------------------------------------------------------------------
(* C12 *)

\* the cells of the board b that are occupied, as <<row, col>>
OccupiedCells(b) ==
  { rc \in (0 .. (ROWS - 1)) \X (0 .. (COLS - 1)) : occupied(b, rc[1], rc[2]) }

\* check_handle_command is about to serve Drop for the bar at row 0, col 4
\* over an empty board
BarDropOnEmpty ==
  /\ pc = "check" /\ Running /\ ~timeout(Cur) /\ command = CMD_DROP
  /\ board = EmptyBoard
  /\ current_index = 3 /\ current_row = ROWNEW /\ current_col = 4

\* the lowest anchor row at which the block blk fits the board b in column
\* col
LowestFit(b, blk, col) ==
  CHOOSE r \in 0 .. (ROWS - 1) :
     /\ FitsAt(b, blk, r, col)
     /\ \A q \in (r + 1) .. (ROWS - 1) : ~FitsAt(b, blk, q, col)

\* C12 as claimed: on an empty board Drop of the bar spawned at row 0, col 4
\* leaves the cells (23,4), (23,5), (23,6), (23,7) occupied and a new block
\* at row 0.
C12_DropLaysBarFlat ==
  [][ BarDropOnEmpty =>
        /\ \A c \in 4 .. 7 : occupied(board', ROWS - 1, c)
        /\ current_row' = ROWNEW ]_vars

\* C12, amended: on an empty board Drop of the bar at row 0, col 4 locks it
\* at the lowest row at which it fits, its bottom cells in row 23, and
\* spawns a new block at row 0, col 4.  The bar as spawned (rotation 0)
\* stands upright in column 6 and fills (20,6), (21,6), (22,6), (23,6); the
\* bar turned flat by one rotation fills (23,4), (23,5), (23,6), (23,7).
C12_DropToFloor ==
  [][ BarDropOnEmpty =>
        /\ OccupiedCells(board') =
              { << LowestFit(board, current_block, 4) + ij[1], 4 + ij[2] >> :
                   ij \in MaskCells(current_block) }
        /\ \E rc \in OccupiedCells(board') : rc[1] = ROWS - 1
        /\ current_rotation \in {0, 2} =>
              OccupiedCells(board') = ((ROWS - 4) .. (ROWS - 1)) \X {6}
        /\ current_rotation \in {1, 3} =>
              OccupiedCells(board') = {ROWS - 1} \X (4 .. 7)
        /\ current_row' = ROWNEW /\ current_col' = 4
        /\ ~TestBit(state', 3) ]_vars

\* the flat bar has been dropped on the empty board and lies in row 23
C12_Witness ==
  /\ AtPoll
  /\ served = <<"command", CMD_DROP, TRUE>>
  /\ OccupiedCells(board) = {ROWS - 1} \X (4 .. 7)
  /\ current_row = ROWNEW

----------------------------------------------------------------------------
(* C13 *)

\* the columns of row r that are occupied on the board b
Row(b, r) == { c \in 0 .. (COLS - 1) : occupied(b, r, c) }

\* the complete rows of the board b
CompleteRows(b) == { r \in 0 .. (ROWS - 1) : Row(b, r) = 0 .. (COLS - 1) }

\* check_remove_completed_rows has returned from a board with the complete
\* rows K
Cleared(K) ==
  /\ pc = "return" /\ call = <<"check_remove_completed_rows">>
  /\ CompleteRows(ret[1]) = K

\* C13 as claimed: after the clear engine has run on a board whose row r
\* was the one complete row, row r is empty, every row above r has moved
\* down by one, row 0 is empty and lines is one higher than before.
C13_ClearCountsLine ==
  \A r \in 0 .. (ROWS - 1) :
     Cleared({r}) =>
        /\ Row(board, r) = {}
        /\ \A q \in 1 .. r : Row(board, q) = Row(ret[1], q - 1)
        /\ Row(board, 0) = {}
        /\ lines = ret[2] + 1

\* C13, amended: after the clear engine has run on a board whose row r was
\* the one complete row, every row above r has moved down by exactly one
\* (row r holds what row r - 1 held, and is empty only if that row was),
\* row 0 is empty and the rows below r are as they were; lines, incremented
\* to the threshold 1, is reset to 0, and level is one higher, with step_ms
\* shrunk to 3/4, unless level was MAX_level.
C13_ClearShiftsAndLevels ==
  \A r \in 0 .. (ROWS - 1) :
     Cleared({r}) =>
        /\ \A q \in 1 .. r : Row(board, q) = Row(ret[1], q - 1)
        /\ Row(board, 0) = {}
        /\ \A q \in (r + 1) .. (ROWS - 1) : Row(board, q) = Row(ret[1], q)
        /\ lines = 0
        /\ ret[3] < MAX_level =>
              level = ret[3] + 1 /\ step_ms = (ret[4] * 3) \div 4
        /\ ret[3] >= MAX_level => level = ret[3] /\ step_ms = ret[4]

\* row 13 alone was complete, under a row that was not empty, and the call
\* has raised the level from 3 to 4
C13_Witness ==
  /\ Cleared({13})
  /\ Row(ret[1], 12) # {}
  /\ Row(board, 13) = Row(ret[1], 12)
  /\ ret[3] = 3 /\ level = 4

----------------------------------------------------------------------------
(* C14 *)

\* the rows of the set S in ascending order
RECURSIVE Ascending(_)
Ascending(S) ==
  IF S = {} THEN <<>>
  ELSE LET m == CHOOSE x \in S : \A y \in S : x <= y
       IN <<m>> \o Ascending(S \ {m})

\* C14: after one call of check_remove_completed_rows on a board with k
\* complete rows, adjacent or not, no row is complete, the top k rows are
\* empty, and the incomplete rows follow below them with their contents and
\* in their order.
C14_AllCompleteRowsCollapse ==
  (pc = "return" /\ call = <<"check_remove_completed_rows">>) =>
     LET K == CompleteRows(ret[1])
         k == Cardinality(K)
         kept == Ascending((0 .. (ROWS - 1)) \ K)
     IN /\ CompleteRows(board) = {}
        /\ \A q \in 0 .. (k - 1) : Row(board, q) = {}
        /\ \A i \in 1 .. (ROWS - k) :
              Row(board, k + i - 1) = Row(ret[1], kept[i])

\* three rows were complete, two of them adjacent, across the boundary of
\* two bands of rows, with an incomplete row between them
C14_Witness ==
  /\ Cleared({6, 8, 9})
  /\ Row(ret[1], 7) # {}
  /\ Row(board, 9) = Row(ret[1], 7)

----------------------------------------------------------------------------
(* C15 *)

\* check_handle_command is about to serve Start
StartServed ==
  /\ pc = "check" /\ command = CMD_START
  /\ gameover(Cur) \/ ~timeout(Cur)

\* what the call of check_handle_command made in this step has drawn
Drawn == { draws'[i] : i \in DOMAIN draws' }

\* the call of check_handle_command made in this step has locked the block
\* and spawned the next one
SpawnedInStep ==
  /\ pc = "check" /\ pc' # "exited"
  /\ <<"display_block", PAINT_FIXED>> \in Drawn

\* the unsigned int b is the number a + n: the sum has not wrapped
RaisedBy(a, n, b) == b = AddU32(a, n) /\ BelowU32(a, b)

\* C15: score counts the blocks spawned since the last Start, the first one
\* included: it is SCORE_PER_BLOCK at least, Start sets it to
\* SCORE_PER_BLOCK, every step that spawns a block leaves the number that
\* is higher by exactly SCORE_PER_BLOCK, whether or not rows are cleared in
\* it, and no other step changes it.
C15_ScoreCountsSpawns ==
  [][ /\ ~BelowU32(score, SCORE_PER_BLOCK)
      /\ StartServed => score' = SCORE_PER_BLOCK
      /\ (~StartServed /\ SpawnedInStep) =>
            RaisedBy(score, SCORE_PER_BLOCK, score')
      /\ (~StartServed /\ ~SpawnedInStep) => score' = score ]_vars

\* the fifth block of a game has just been spawned by the Drop that cleared
\* the first row
C15_Witness ==
  /\ AtPoll /\ served[2] = CMD_DROP
  /\ <<"beep", 0>> \in { draws[i] : i \in DOMAIN draws }
  /\ level = 2 /\ score = 5

----------------------------------------------------------------------------
(* C16 *)

\* C16: score never decreases from one state to the next, except when Start
\* resets it to 1.
C16_ScoreMonotonic ==
  [][ ~BelowU32(score', score) \/ (StartServed /\ score' = 1) ]_vars

\* Start has been served in GameOver and has taken the score back to 1
C16_Witness ==
  /\ AtPoll /\ served[1] = "gameover" /\ served[2] = CMD_START
  /\ score = 1

----------------------------------------------------------------------------
(* C17 *)

\* C17: 1 <= level <= MAX_level in every state, MAX_level being 9 or, with
\* -x, 10; level never decreases from one state to the next, except when
\* Start resets it to 1.
C17_LevelBoundedMonotonic ==
  [][ /\ MAX_level \in {9, 10}
      /\ 1 <= level /\ level <= MAX_level
      /\ 1 <= level' /\ level' <= MAX_level'
      /\ level' >= level \/ (StartServed /\ level' = 1) ]_vars

\* a row has just been cleared with -x and the level is at its cap of 10
C17_Witness ==
  /\ AtPoll /\ served[2] = CMD_DROP
  /\ <<"beep", 0>> \in { draws[i] : i \in DOMAIN draws }
  /\ MAX_level = 10 /\ level = 10

----------------------------------------------------------------------------
(* C18 *)

\* C18: step_ms is strictly positive in every state; the shrinking by 3/4
\* stops with the level, at 99 with MAX_level 9 and at 74 with MAX_level 10,
\* however many rows are cleared.
C18_StepPositive ==
  /\ step_ms > 0
  /\ MAX_level = 9 => step_ms >= 99
  /\ MAX_level = 10 => step_ms >= 74

\* a row has just been cleared without -x and step_ms is at its lowest, 99
C18_Witness ==
  /\ AtPoll /\ served[2] = CMD_DROP
  /\ <<"beep", 0>> \in { draws[i] : i \in DOMAIN draws }
  /\ MAX_level = 9 /\ level = 9 /\ step_ms = 99

----------------------------------------------------------------------------
(* C19 *)

\* 1000 with the step (s * 3) >> 2 applied n - 1 times
RECURSIVE Curve(_)
Curve(n) == IF n <= 1 THEN INITIAL_STEP_MS ELSE (Curve(n - 1) * 3) \div 4

\* C19 as claimed: in every state step_ms is Curve(level), and step_ms does
\* not increase in a step in which level does not decrease.
C19_OnCurveAlways ==
  [][ /\ step_ms = Curve(level)
      /\ step_ms' = Curve(level')
      /\ level' >= level => step_ms' <= step_ms ]_vars

\* C19, amended: in every state of a running game step_ms is Curve(level)
\* (1000, 750, 562, 421, 315, 236, 177, 132, 99, 74 for the levels 1..10); in
\* GameOver it is Curve(level) or, once check_handle_command has been called
\* there, 1000; and step_ms does not increase in a step in which level does
\* not decrease, other than a call of check_handle_command in GameOver.
C19_OnCurveWhileRunning ==
  [][ /\ Running => step_ms = Curve(level)
      /\ Running' => step_ms' = Curve(level')
      /\ step_ms' \in {Curve(level'), 1000}
      /\ <<Curve(1), Curve(2), Curve(3), Curve(4), Curve(5), Curve(6),
            Curve(7), Curve(8), Curve(9), Curve(10)>> =
         <<1000, 750, 562, 421, 315, 236, 177, 132, 99, 74>>
      /\ (level' >= level /\ ~(pc = "check" /\ gameover(Cur))) =>
            step_ms' <= step_ms ]_vars

\* a row has just been cleared in a running game, which is at level 6 with
\* a step of 236 ms
C19_Witness ==
  /\ AtPoll /\ Running /\ served[2] = CMD_DROP
  /\ <<"beep", 0>> \in { draws[i] : i \in DOMAIN draws }
  /\ level = 6 /\ step_ms = 236

----------------------------------------------------------------------------
(* C20 *)

\* C20: Start, served in Running or in GameOver, leaves the initial game:
\* every cell of the board empty, score 1, lines 0, level 1, step_ms 1000, a
\* block of a kind in 1..7 in rotation 0 at row 0, col 4, the flags GAME_OVER
\* and TIMEOUT clear and no command pending.
C20_StartResets ==
  [][ StartServed =>
        /\ \A r \in 0 .. (ROWS - 1), c \in 0 .. (COLS - 1) :
              ~occupied(board', r, c)
        /\ score' = 1 /\ lines' = 0 /\ level' = 1 /\ step_ms' = 1000
        /\ current_row' = 0 /\ current_col' = 4 /\ current_rotation' = 0
        /\ current_index' \in 1 .. 7
        /\ current_block' = create_rotated_block(current_index', 0)
        /\ ~TestBit(state', 3) /\ ~TestBit(state', 1)
        /\ command' = CMD_NONE ]_vars

\* Start has been served in a running game
C20_Witness ==
  /\ AtPoll /\ served[1] = "command" /\ served[2] = CMD_START
  /\ board = EmptyBoard /\ level = 1 /\ score = 1

----------------------------------------------------------------------------
(* C21 *)

\* the switch of check_handle_command is about to serve the byte of a running
\* game
SwitchServes == pc = "check" /\ Running /\ ~timeout(Cur)

\* C21: Redraw processed in Running status leaves the board, the block (kind,
\* rotation, mask, row, column), score, lines, level, step_ms and the status
\* flags as they were; what it emits is the full repaint: clear screen, the
\* board with its 23 rows, the score, the active block.
C21_RedrawKeepsState ==
  [][ (SwitchServes /\ command = CMD_REDRAW) =>
        /\ UNCHANGED <<board, current_index, current_rotation, current_block,
                       current_row, current_col, score, lines, level,
                       step_ms, state>>
        /\ draws' = << <<"clear_screen", 0>>, <<"display_board", ROWSD>>,
                       <<"display_score", 0>>,
                       <<"display_block", PAINT_ACTIVE>> >> ]_vars

\* Redraw has been served in a game with blocks on the board
C21_Witness ==
  /\ AtPoll /\ Running
  /\ served = <<"command", CMD_REDRAW, FALSE>>
  /\ board # EmptyBoard
  /\ Len(draws) = 4

----------------------------------------------------------------------------
(* C22 *)

\* the bytes that are command keys
CommandKeys ==
  { CMD_LEFT, CMD_RIGHT, CMD_ROTATE_CCW, CMD_ROTATE_CW, CMD_DROP, CMD_REDRAW,
    CMD_START, CMD_QUIT, CMD_CTRLC }

\* C22: a byte that is none of the nine command keys behaves as None: served
\* in Running status with no tick pending it leaves the board, the block,
\* score, lines, level, step_ms and the status flags as they were and draws
\* nothing; and this is so for every such byte 1..255, each leaving what the
\* byte 0 leaves.
C22_OtherByteIsNone ==
  [][ (SwitchServes /\ command \notin CommandKeys) =>
        /\ UNCHANGED <<board, current_index, current_rotation, current_block,
                       current_row, current_col, score, lines, level,
                       step_ms, state>>
        /\ draws' = <<>>
        /\ command # CMD_NONE =>
             \A b \in (1 .. 255) \ CommandKeys :
                check_handle_command([Entry EXCEPT !.command = b], NoRand)
                  = check_handle_command([Entry EXCEPT !.command = CMD_NONE],
                                         NoRand) ]_vars

\* the byte 'x' has been served in a running game with blocks on the board
C22_Witness ==
  /\ AtPoll /\ Running
  /\ served = <<"command", KEY_OTHER, FALSE>>
  /\ board # EmptyBoard
  /\ draws = <<>>

----------------------------------------------------------------------------
(* C23 *)

\* C23: Quit ('q' or Ctrl-C) is honoured in every status: the call of
\* check_handle_command that finds it, in Running and in GameOver alike,
\* ends the process with exit(0) and changes neither the board, the block,
\* score, lines, level, step_ms nor the flags, and draws nothing; no step
\* follows.
C23_QuitExitsAtOnce ==
  [][ /\ (pc = "check" /\ command \in {CMD_QUIT, CMD_CTRLC}) =>
           /\ pc' = "exited" /\ call' = <<"exit", 0>>
           /\ UNCHANGED <<board, current_index, current_rotation,
                          current_block, current_row, current_col, score,
                          lines, level, step_ms, state, draws, screen>>
      /\ pc' = "exited" => command \in {CMD_QUIT, CMD_CTRLC}
      /\ pc # "exited" ]_vars

\* Ctrl-C has ended the process in GameOver
C23_Witness ==
  /\ pc = "exited" /\ call = <<"exit", 0>>
  /\ gameover(Cur) /\ command = CMD_CTRLC

----------------------------------------------------------------------------
(* C24 *)

\* C24 as claimed: whenever the TIMEOUT flag is set on entry to
\* check_handle_command the pending command is CMD_NONE; the tick branch and
\* the switch never both run in one call; no byte that was read is discarded
\* by the tick branch.
C24_OneEventAlways ==
  [][ pc = "check" =>
        /\ timeout(Cur) => command = CMD_NONE
        /\ (pc' = "isr" /\ served'[1] = "tick") =>
              /\ command = CMD_NONE
              /\ current_col' = current_col \/ SpawnedInStep
        /\ (pc' = "isr" /\ served'[1] = "command") =>
              /\ ~TestBit(state', 1)
              /\ command' = CMD_NONE
              /\ served'[2] = command ]_vars

\* C24, amended: each call of check_handle_command serves one event.  In
\* Running status the TIMEOUT flag is set on entry only with CMD_NONE
\* pending, so the tick branch discards no byte; the call then runs either
\* the tick branch or the switch, never both.  In GameOver neither runs, and
\* the flag, set by a poll without a byte, stays set while later polls read
\* bytes: there TIMEOUT and a pending command do occur together.
C24_OneEventWhileRunning ==
  [][ pc = "check" =>
        /\ (Running /\ timeout(Cur)) => command = CMD_NONE
        /\ (pc' = "isr" /\ served'[1] = "tick") =>
              /\ command = CMD_NONE
              /\ current_col' = current_col \/ SpawnedInStep
        /\ (pc' = "isr" /\ served'[1] = "command") =>
              /\ ~TestBit(state', 1)
              /\ command' = CMD_NONE
              /\ served'[2] = command
        /\ (pc' = "isr" /\ served'[1] = "gameover" /\ command # CMD_START) =>
              /\ draws' = <<>>
              /\ TestBit(state', 1) = timeout(Cur) ]_vars

\* a tick has been served in a running game and has let the block fall
C24_Witness ==
  /\ AtPoll /\ Running
  /\ served = <<"tick", CMD_NONE, TRUE>>
  /\ ~timeout(Cur)
  /\ current_row = 1

----------------------------------------------------------------------------
(* C25 *)

\* a screen with a mark in every cell that no character of the program is
Marked == <<>> \o [r \in 1 .. LINES |-> <<>> \o [c \in 1 .. (XLIMIT + 1) |-> 0]]

\* what display_block(paintMode) writes for the block of g, as
\* <<line, cell, character>> with lines and cells counted from 0
Written(g, paintMode) ==
  Then(display_block([g EXCEPT !.screen = Marked], paintMode).screen,
       LAMBDA s :
         UNION { { <<r, c, s[r + 1][c + 1]>> :
                     c \in { q \in 0 .. XLIMIT : s[r + 1][q + 1] # 0 } } :
                 r \in { n \in 0 .. (LINES - 1) : s[n + 1] # Marked[n + 1] } })

\* the cells of the block of g in the rows ROW0 .. ROWS - 1, which are the
\* lines 0 .. ROWSD - 1 of the screen, the column c in cell XOFFSET + c
VisibleCells(g) ==
  { << g.current_row + ij[1] - ROW0, XOFFSET + g.current_col + ij[2] >> :
       ij \in { m \in MaskCells(g.current_block) :
                   g.current_row + m[1] \in ROW0 .. (ROWS - 1) } }

\* C25: for the block as it is (mask, row, column), display_block(ERASE) and
\* display_block(PAINT_ACTIVE) write the same set of screen cells, the cells
\* of the block inside the visible window, with ' ' and with 'H'; the block
\* erased and painted again at its place leaves the screen that painting it
\* leaves, which is the screen as it was with the block painted.
C25_EraseAndPaintSameCells ==
  /\ Written(Cur, ERASE) =
       { <<rc[1], rc[2], CHAR_SPACE>> : rc \in VisibleCells(Cur) }
  /\ Written(Cur, PAINT_ACTIVE) =
       { <<rc[1], rc[2], CHAR_ACTIVE>> : rc \in VisibleCells(Cur) }
  /\ \E s \in { display_block(display_block(Cur, ERASE), PAINT_ACTIVE).screen } :
        /\ s = display_block(Cur, PAINT_ACTIVE).screen
        /\ s = screen

\* the upright bar has been moved to the side in row 0, where one of its
\* four cells is above the window: three cells are written
C25_Witness ==
  /\ AtPoll /\ served[1] = "command" /\ served[3]
  /\ current_index = 3 /\ current_rotation = 0 /\ current_row = 0
  /\ Cardinality(Written(Cur, ERASE)) = 3
  /\ board # EmptyBoard

----------------------------------------------------------------------------
(* C29 *)

\* check_handle_command is about to serve a Tick for a block that fits one
\* row lower
TickFalls ==
  /\ pc = "check" /\ Running /\ timeout(Cur)
  /\ FitsAt(board, current_block, current_row + 1, current_col)

\* C29: a Tick in Running status on which the block fits one row lower
\* changes current_row by exactly + 1 and nothing else of the game: column,
\* kind, rotation, mask, board, score, lines, level, step_ms and the status
\* are as they were, and the TIMEOUT flag is clear afterwards.
C29_TickFallsOneRow ==
  [][ TickFalls =>
        /\ current_row' = current_row + 1
        /\ UNCHANGED <<current_col, current_index, current_rotation,
                       current_block, board, score, lines, level, step_ms>>
        /\ ~TestBit(state', 3)
        /\ ~TestBit(state', 1)
        /\ state' = state - TIMEOUT ]_vars

\* the third Tick in a row has let a block fall to row 3 above the pile
C29_Witness ==
  /\ AtPoll /\ Running /\ ~timeout(Cur)
  /\ served = <<"tick", CMD_NONE, TRUE>>
  /\ current_row = 3
  /\ board # EmptyBoard

----------------------------------------------------------------------------
(* C26 *)

\* the columns of row r covered by the block blk anchored at (row, col)
BlockRow(blk, row, col, r) ==
  { col + m[2] : m \in { ij \in MaskCells(blk) : row + ij[1] = r } }

\* the last row from row on down to which the block blk fits in column col
RECURSIVE LandingRow(_, _, _, _)
LandingRow(b, blk, row, col) ==
  IF FitsAt(b, blk, row + 1, col) THEN LandingRow(b, blk, row + 1, col)
  ELSE row

\* check_handle_command is about to serve an event on which the block is
\* locked: a Tick of a block that does not fit one row lower, or Drop
Locks ==
  /\ pc = "check" /\ Running
  /\ IF timeout(Cur)
     THEN ~FitsAt(board, current_block, current_row + 1, current_col)
     ELSE command = CMD_DROP

\* the row at which that event locks the block
LockRow ==
  IF timeout(Cur) THEN current_row
  ELSE IF PieceFits
       THEN LandingRow(board, current_block, current_row, current_col)
       ELSE current_row - 1

\* the block locked at LockRow completes at least one row of the board
RowCompleted ==
  \E lr \in {LockRow} :
     \E r \in 0 .. (ROWS - 1) :
        Row(board, r) \cup BlockRow(current_block, lr, current_col, r)
           = 0 .. (COLS - 1)

\* init_game is about to be called: Start, in a finished or a running game
ServesStart ==
  /\ pc = "check" /\ command = CMD_START
  /\ gameover(Cur) \/ ~timeout(Cur)

\* the draw operations d hold a repaint of the board
Repaints(d) == \E i \in DOMAIN d : d[i][1] = "display_board"

\* the draw operations d are erase and paint operations of the block only
PieceOnly(d) ==
  /\ d # <<>>
  /\ \A i \in DOMAIN d : d[i][1] = "display_block"

\* C26: a step of check_handle_command emits display_board only when it
\* calls init_game (Start), when it serves Redraw, or when it locks a block
\* that completes at least one row, which the clear engine removes; a Tick on
\* which the block falls one row, a lock that completes no row, and a Left,
\* Right or Rotate command emit erase and paint operations of the block and
\* nothing else.
C26_RepaintOnlyWhenNeeded ==
  [][ pc = "check" =>
        /\ Repaints(draws') =>
              \/ ServesStart
              \/ SwitchServes /\ command = CMD_REDRAW
              \/ Locks /\ RowCompleted
        /\ ( \/ TickFalls
             \/ Locks /\ ~RowCompleted
             \/ SwitchServes /\ command \in MoveKeys ) =>
              PieceOnly(draws') ]_vars

\* Drop has laid the flat bar into the open columns of row 23: the row was
\* removed by scrolling and the top line repainted
C26_Witness ==
  /\ AtPoll /\ Running
  /\ served[1] = "command" /\ served[2] = CMD_DROP
  /\ <<"display_board", 1>> \in { draws[i] : i \in DOMAIN draws }
  /\ <<"scroll_region_down", ROWS - 1 - ROW0>> \in
        { draws[i] : i \in DOMAIN draws }

----------------------------------------------------------------------------
(* C27 *)

\* C27: in the step of check_handle_command in which a failed fall, by Tick
\* or by Drop, sets GAME_OVER, no display_block(PAINT_ACTIVE) is emitted, no
\* block being spawned in that step.
C27_GameOverWithoutSpawn ==
  [][ (Locks /\ TestBit(state', 3)) =>
        <<"display_block", PAINT_ACTIVE>> \notin
           { draws'[i] : i \in DOMAIN draws' } ]_vars

----------------------------------------------------------------------------
(* C28 *)

\* what a full repaint shows in line n, cell XOFFSET + c of the playfield:
\* display_board writes 'X' for an occupied cell of the board and ' ' for an
\* empty one, display_block(PAINT_ACTIVE) then 'H' for a cell of the block
Repainted(n, c) ==
  IF <<n, XOFFSET + c>> \in VisibleCells(Cur) THEN CHAR_ACTIVE
  ELSE IF occupied(board, n + ROW0, c) THEN CHAR_FIXED
  ELSE CHAR_SPACE

\* C28: whenever check_handle_command has served an event and returned, the
\* screen painted cell by cell shows in every cell of the playfield, the
\* lines 0 .. ROWSD - 1 and the columns 0 .. COLS - 1, what a full repaint
\* would show: 'H' for a cell of the active block, 'X' for an occupied cell
\* of the board, ' ' for any other.
C28_ScreenIsFullRepaint ==
  AtPoll =>
    \A n \in 0 .. (ROWSD - 1), c \in 0 .. (COLS - 1) :
       screen[n + 1][XOFFSET + c + 1] = Repainted(n, c)

----------------------------------------------------------------------------
(* C30 *)

\* the switch of check_handle_command is about to serve Drop for a block
\* that fits where it is
DropFits == SwitchServes /\ command = CMD_DROP /\ PieceFits

\* the columns of row q occupied once the block is locked at the row lr
LockedRow(lr, q) ==
  Row(board, q) \cup BlockRow(current_block, lr, current_col, q)

\* C30: Drop served in Running status for a block that fits at (r, c, q)
\* locks its cells at (r', c, q), r' >= r being the last row such that the
\* block fits at every row r .. r'; the rows completed by that are removed
\* and the rows above them moved down; a new block is spawned at row 0,
\* column 4, rotation 0, and score is the number that is one higher.
C30_DropLocksAtLandingRow ==
  [][ DropFits =>
        LET lr == LandingRow(board, current_block, current_row, current_col)
            K == { q \in 0 .. (ROWS - 1) : LockedRow(lr, q) = 0 .. (COLS - 1) }
            k == Cardinality(K)
            kept == Ascending((0 .. (ROWS - 1)) \ K)
        IN /\ lr >= current_row
           /\ \A q \in current_row .. lr :
                 FitsAt(board, current_block, q, current_col)
           /\ ~FitsAt(board, current_block, lr + 1, current_col)
           /\ \A q \in 0 .. (k - 1) : Row(board', q) = {}
           /\ \A i \in 1 .. (ROWS - k) :
                 Row(board', k + i - 1) = LockedRow(lr, kept[i])
           /\ current_row' = ROWNEW /\ current_col' = 4
           /\ current_rotation' = 0
           /\ current_block' = create_rotated_block(current_index', 0)
           /\ RaisedBy(score, SCORE_PER_BLOCK, score') ]_vars

\* Drop has laid the flat bar on the tower of column 6, in row 3, and the
\* next bar stands at the spawn place
C30_Witness ==
  /\ AtPoll /\ Running
  /\ served[1] = "command" /\ served[2] = CMD_DROP
  /\ Row(board, 3) = 4 .. 7
  /\ Row(board, 2) = {}
  /\ current_row = ROWNEW /\ current_col = 4 /\ current_rotation = 0

----------------------------------------------------------------------------
(* C31 *)

\* C31: after remove_row(row) with row in 0..23, in every column, row k of
\* the board holds what row k - 1 held for 1 <= k <= row, row 0 is empty,
\* and every row k > row is as it was.
C31_RemoveRowShiftsDown ==
  (pc = "return" /\ call[1] = "remove_row") =>
     \A c \in 0 .. (COLS - 1) :
        /\ \A k \in 1 .. call[2] :
              occupied(board, k, c) = occupied(ret, k - 1, c)
        /\ ~occupied(board, 0, c)
        /\ \A k \in (call[2] + 1) .. (ROWS - 1) :
              occupied(board, k, c) = occupied(ret, k, c)

\* row 17, in the third band of rows, has been removed from a board whose
\* rows differ: the rows of the first two bands have moved across the bands
C31_Witness ==
  /\ pc = "return" /\ call = <<"remove_row", 17>>
  /\ Row(ret, 15) # Row(ret, 16)
  /\ Row(ret, 7) # Row(ret, 8)
  /\ Row(board, 16) = Row(ret, 15)
  /\ Row(board, 8) = Row(ret, 7)
  /\ Row(ret, 0) # {}

----------------------------------------------------------------------------
(* C32 *)

\* the step sets the GAME_OVER flag
GameOverSet == ~TestBit(state, 3) /\ TestBit(state', 3)

\* the step clears the GAME_OVER flag
GameOverCleared == TestBit(state, 3) /\ ~TestBit(state', 3)

\* C32: a step sets GAME_OVER exactly when it is a fall attempt, by Tick or
\* Drop, that fails while the anchor row of the block is 0 or 1; a failed
\* fall with the anchor row >= 2 leaves the flag clear; a step clears the
\* flag only when it calls init_game.
C32_GameOverAtRows01 ==
  [][ /\ GameOverSet <=> (Locks /\ LockRow \in {0, 1})
      /\ GameOverCleared => ServesStart ]_vars

----------------------------------------------------------------------------
(* C33 *)

\* C33: in every state in which GAME_OVER is clear, the rows 0 and 1 of the
\* board hold no occupied cell.
C33_TopRowsEmptyWhileRunning ==
  ~TestBit(state, 3) => Row(board, 0) = {} /\ Row(board, 1) = {}

\* the flat bar lies locked in row 3, the highest row a block can be locked
\* in while the game goes on, and the game goes on: Rotate has been served
\* for the next bar
C33_Witness ==
  /\ AtPoll /\ ~TestBit(state, 3)
  /\ Row(board, 3) = 4 .. 7
  /\ served[1] = "command" /\ served[2] = CMD_ROTATE_CW

----------------------------------------------------------------------------
(* C34 *)

\* the number of occupied cells of the board b: the cell (row, col) is the
\* bit row % 8 of the byte (row \div 8) * 10 + col, so that every bit of the
\* BOARD_BYTES bytes is one cell
CellCount(b) ==
  Cardinality({ xm \in (0 .. (BOARD_BYTES - 1)) \X {1, 2, 4, 8, 16, 32, 64, 128} :
                   (b[xm[1]] \div xm[2]) % 2 = 1 })

\* the rows that the block locked at LockRow completes
RowsCompleted ==
  Then(LockRow, LAMBDA lr :
    { q \in 0 .. (ROWS - 1) : LockedRow(lr, q) = 0 .. (COLS - 1) })

\* C34: while GAME_OVER is clear, the board holds 4 cells for every block
\* locked since the last Start less COLS cells for every row removed since
\* then.  Start leaves an empty board; a step that locks a block and leaves
\* GAME_OVER clear adds 4 cells and takes COLS away for every row it
\* removes; any other step leaves the board as it is.  In counters of the
\* program, at every poll: score - SCORE_PER_BLOCK is the number of blocks
\* locked and, below MAX_level, level - 1 the number of rows removed.
C34_FourCellsPerLock ==
  [][ /\ (AtPoll /\ ~TestBit(state, 3) /\ level < MAX_level) =>
            CellCount(board) =
               4 * (score - SCORE_PER_BLOCK) - COLS * (level - 1)
      /\ ServesStart => CellCount(board') = 0
      /\ (~TestBit(state', 3) /\ ~ServesStart) =>
            IF Locks
            THEN CellCount(board') =
                    CellCount(board) + 4 - COLS * Cardinality(RowsCompleted)
            ELSE board' = board ]_vars

\* ten blocks have been locked, the last one by a Drop that removed no
\* row, and three rows removed before it: ten cells are left
C34_Witness ==
  /\ AtPoll /\ ~TestBit(state, 3)
  /\ level = 4 /\ score = 11
  /\ served[1] = "command" /\ served[2] = CMD_DROP
  /\ ~Repaints(draws)
  /\ CellCount(board) = 10

----------------------------------------------------------------------------
(* C35 *)

\* the smaller of a and b
Min(a, b) == IF a < b THEN a ELSE b

\* C35: the threshold of a level-up is one row.  At every poll lines is 0;
\* Start sets level to 1; a step that locks a block raises level by the
\* number of rows it removes, up to MAX_level, so that a clear of several
\* rows raises it once for each; a lock that removes no row leaves level and
\* step_ms as they are, and so does every step that locks nothing but for
\* the step_ms of a finished game.
C35_LevelUpEveryRow ==
  [][ /\ AtPoll => lines = 0
      /\ ServesStart => level' = 1
      /\ Locks =>
            \E k \in {Cardinality(RowsCompleted)} :
               /\ level' = Min(MAX_level, level + k)
               /\ k = 0 => level' = level /\ step_ms' = step_ms
      /\ (~Locks /\ ~ServesStart) =>
            /\ level' = level
            /\ ~TestBit(state, 3) => step_ms' = step_ms ]_vars

\* the bar dropped into column 9 has removed the rows 20..23 at once, in
\* the first game: the level is 5
C35_Witness ==
  /\ AtPoll /\ ~TestBit(state, 3)
  /\ served[1] = "command" /\ served[2] = CMD_DROP
  /\ <<"display_board", 4>> \in { draws[i] : i \in DOMAIN draws }
  /\ level = 5 /\ lines = 0 /\ score = 11
  /\ board = EmptyBoard

----------------------------------------------------------------------------
(* C36 *)

\* the check_handle_command that just returned has locked a block and
\* spawned the next one
LockedNow ==
  /\ AtPoll
  /\ <<"display_block", PAINT_FIXED>> \in { draws[i] : i \in DOMAIN draws }

\* check_handle_command has just served a Tick
TickServed == AtPoll /\ served[1] = "tick"

\* Ticks are served again and again: time and again a Tick has just been
\* served, and time and again the program has gone on from there
TicksForEver == ([]<>TickServed) /\ ([]<>~TickServed)

\* C36: if ticks are served again and again, then, whatever keys are read in
\* between, the block that is active at a poll of a running game is locked
\* in the end, and the next one spawned, or the game is over.
C36_PieceLockedOrGameOver ==
  TicksForEver =>
     ((AtPoll /\ Running /\ score < MaxScore) ~>
         (LockedNow \/ TestBit(state, 3)))

\* check_handle_command has just served Start in a running game
StartServedNow == AtPoll /\ served[1] = "command" /\ served[2] = CMD_START

\* C36, amended: if ticks are served again and again, then, whatever keys
\* are read in between, the block that is active at a poll of a running game
\* is locked in the end, and the next one spawned, or the game is over, or
\* Start is served, which replaces it by the first block of a new game.
C36_PieceLockedUnlessRestart ==
  TicksForEver =>
     ((AtPoll /\ Running /\ score < MaxScore) ~>
         (LockedNow \/ TestBit(state, 3) \/ StartServedNow))

\* the third Tick in a row has locked the flat bar that Rotate had laid on
\* the tower of column 6
C36_Witness ==
  /\ LockedNow /\ Running
  /\ served[1] = "tick"
  /\ Row(board, 3) = 4 .. 7
  /\ score = 7

----------------------------------------------------------------------------
(* C37 *)

\* C37: in the legacy variant the threshold of a level-up is three rows.  At
\* every poll lines is one of 0, 1, 2, level is 1 plus a third (rounded
\* down) of the rows removed since the last init_game, 9 at most, and the
\* read timeout c_cc[VTIME] that level_speed has set is 10 - level, a number
\* from 1 to 9.
C37_LevelUpEveryThirdRow ==
  AtPoll =>
    /\ lines \in 0 .. 2
    /\ level = Min(9, 1 + removed_rows \div 3)
    /\ vtime = 10 - level
    /\ vtime \in 1 .. 9

\* the fifth square of the fifteenth round has been dropped: 30 rows are
\* removed, the level has stayed 9, and lines is back at 0
C37_Witness ==
  /\ AtPoll /\ ~TestBit(state, 3)
  /\ served[1] = "command" /\ served[2] = CMD_DROP
  /\ removed_rows = 30 /\ level = 9 /\ lines = 0 /\ vtime = 1
  /\ board = EmptyBoard

----------------------------------------------------------------------------
(* C38 *)

\* C38: in the legacy variant the fourth of four rotate_block calls in a row
\* leaves the visible mask, the lower nibbles of current_block0..3, as it
\* was before the first, whatever the kind of the block and the orientation
\* it started in; and a cmd_rotate whose rotation is rejected leaves the
\* visible mask as it was before the command.
C38_FourTurnsRestoreMask ==
  [][ /\ (call'[1] = "rotate_block" /\ call'[2] = 4) =>
            Visible(current_block') = ret
      /\ (call'[1] = "cmd_rotate" /\ call'[2] = 0) =>
            Visible(current_block') = Visible(current_block) ]_vars

\* the upright bar in column 0 has been refused the rotation: it is upright
\* again, and the upper nibbles hold what the rotations have left there
C38_Witness ==
  /\ call = <<"cmd_rotate", 0>>
  /\ current_col = 0 - 2
  /\ Visible(current_block) = <<4, 4, 4, 4>>
  /\ current_block # Visible(current_block)

----------------------------------------------------------------------------
(* C39 *)

\* the call of check_handle_command about to run locks the block and creates
\* the next one
LegacyLocks ==
  /\ pc = "check" /\ command # CMD_QUIT /\ ~gameover(Cur)
  /\ \/ timeout(Cur) /\ WouldLock
     \/ ~timeout(Cur) /\ command = CMD_DROP

\* C39: in the legacy variant score does not decrease in a step in which
\* init_game does not run, and a step that creates a block after a lock
\* raises the stored score by exactly 1, however many blocks the game has
\* seen.
C39_ScoreCountsEveryBlock ==
  [][ ~LegacyStarts =>
        /\ score' >= score
        /\ LegacyLocks => score' = score + 1
        /\ ~LegacyLocks => score' = score ]_vars

----------------------------------------------------------------------------
(* C40 *)

\* the cells of the board b that are occupied, as <<row, col>>
BoardCells(b) ==
  { rc \in (0 .. (ROWS - 1)) \X (0 .. (COLS - 1)) : occupied(b, rc[1], rc[2]) }

\* the cells in which the screens s and t differ, as <<line, cell>>
ScreenDiff(s, t) ==
  { lc \in (1 .. LINES) \X (1 .. (XLIMIT + 1)) :
       s[lc[1]][lc[2]] # t[lc[1]][lc[2]] }

\* C40: each of the 28 masks of rotated_block_pattern, kinds 1..7 in the
\* rotations 0..3, has exactly four occupied cells, and so has the mask in
\* current_block0..3; a call of display_block changes four cells of the
\* screen at most, and a call of copy_block_to_gameboard on a block that
\* lies on empty cells of the board occupies its four cells and no other.
C40_FourCellsPerMask ==
  [][ /\ \A x \in AllKinds, rot \in 0 .. 3 :
            Cardinality(MaskCells(create_rotated_block(x, rot))) = 4
      /\ Cardinality(MaskCells(current_block)) = 4
      /\ Cardinality(MaskCells(current_block')) = 4
      /\ call'[1] = "display_block" =>
            Cardinality(ScreenDiff(screen, screen')) <= 4
      /\ call'[1] = "copy_block_to_gameboard" =>
            /\ BoardCells(board') =
                  BoardCells(board) \cup
                  { <<current_row + ij[1], current_col + ij[2]>> :
                       ij \in MaskCells(current_block) }
            /\ Cardinality(BoardCells(board')) =
                  Cardinality(BoardCells(board)) + 4 ]_vars

\* copy_block_to_gameboard has put the T that points up, with a cell in the
\* first row of its mask, on the empty board
C40_Witness ==
  /\ pc = "return"
  /\ call[1] = "copy_block_to_gameboard"
  /\ current_index = 2 /\ current_rotation = 2
  /\ ret = EmptyBoard
  /\ BoardCells(board) = { <<0, 6>>, <<1, 5>>, <<1, 6>>, <<1, 7>> }

====
